---- MODULE Spec2Model ----
(***************************************************************************)
(* Zeal Disk Tool: the staged MBR partition editor, the disk registry and  *)
(* the ZealFS v2 engine, as state machines.                                *)
(*                                                                         *)
(* Integer widths are scaled: a uint32_t is Bits32 bits wide and a         *)
(* uint64_t Bits64 bits wide, so that every wrap-around of the C code      *)
(* happens inside the integers the model checker can hold.  The platform   *)
(* is LP64 (unsigned long is 64 bits wide), as in disk_mac.c.              *)
(* The device content is kept in units of 256 bytes (the smallest ZealFS   *)
(* page); a unit that is absent from a device map is all zero bytes.       *)
(***************************************************************************)
EXTENDS Integers, Sequences, FiniteSets, TLC

\* the disk editor: registry, raw devices and image files, last handler result
VARIABLES disks, disk_count, selected_disk, dev, ret, aborted, steps

\* the partition viewer: the bytes of the partition that m_part_ctx reads and
\* writes, the static zealfs_ctx, the file handle, the last engine call and
\* the place in the call sequence
VARIABLES m_part_ctx, zealfs_ctx, fd, fs_ret, fs_case

edvars == <<disks, disk_count, selected_disk, dev, ret, aborted, steps>>

fsvars == <<m_part_ctx, zealfs_ctx, fd, fs_ret, fs_case>>

vars == <<disks, disk_count, selected_disk, dev, ret, aborted, steps,
          m_part_ctx, zealfs_ctx, fd, fs_ret, fs_case>>

\* ---------------------------------------------------------------- widths
Bits32 == 22
Bits64 == 29
U32 == 2^Bits32
U64 == 2^Bits64

\* x * 512UL computed in 64 bits: (x * 512) mod 2^Bits64
Mul512(x) == (x % (U64 \div 512)) * 512

\* a - b on uint64_t operands
SubU64(a, b) == IF a >= b THEN a - b ELSE U64 - (b - a)

\* a - b on uint32_t operands
SubU32(a, b) == IF a >= b THEN a - b ELSE U32 - (b - a)

\* ---------------------------------------------------------------- constants
KB == 1024
MB == 1048576
GB == 1073741824
ZEALFS_TYPE == 90
MAX_DISKS == 3
MAX_DISK_SIZE == 8 * U32
MAX_PART_COUNT == 4
DISK_SECTOR_SIZE == 512
UnitSize == 256

\* ---------------------------------------------------------------- bytes
ZeroUnit == [k |-> "zero"]
CodeUnit == [k |-> "code"]

ZeroEntry ==
  [boot |-> 0, chs |-> 0, type |-> 0, chse |-> 0,
   lba |-> <<0, 0, 0, 0>>, size |-> <<0, 0, 0, 0>>]

NoSig == <<0, 0>>
MbrSig == <<85, 170>>

\* the upper half of sector 0: the four table entries and the signature
TabUnit(entries, sig) ==
  IF entries = <<ZeroEntry, ZeroEntry, ZeroEntry, ZeroEntry>> /\ sig = NoSig
  THEN ZeroUnit
  ELSE [k |-> "tab", entries |-> entries, sig |-> sig]

UnitEntries(u) ==
  IF u.k = "tab" THEN u.entries ELSE <<ZeroEntry, ZeroEntry, ZeroEntry, ZeroEntry>>

UnitSig(u) == IF u.k = "tab" THEN u.sig ELSE NoSig

\* byte 0 and byte 1 of a unit
UnitByte0(u) == IF u.k = "zfs" THEN u.magic ELSE IF u.k = "code" THEN 235 ELSE 0
UnitByte1(u) == IF u.k = "zfs" THEN u.version ELSE IF u.k = "code" THEN 88 ELSE 0

ZeroMbr == [lo |-> ZeroUnit, hi |-> ZeroUnit]

LE32(v) ==
  <<v % 256, (v \div 256) % 256, (v \div 65536) % 256, (v \div 16777216) % 256>>

FromLE32(b) == (b[1] + b[2] * 256 + b[3] * 65536 + b[4] * 16777216) % U32

NULL == [k |-> "null"]

ZeroPart ==
  [active |-> FALSE, type |-> 0, start_lba |-> 0, size_sectors |-> 0,
   data |-> NULL, data_len |-> 0]

ZeroParts == [i \in 0..(MAX_PART_COUNT - 1) |-> ZeroPart]

\* ---------------------------------------------------------------- zealfs_v2.h
zealfsv2_page_size(part_size) ==
  IF part_size <= 64 * KB THEN 256
  ELSE IF part_size <= 256 * KB THEN 512
  ELSE IF part_size <= 1 * MB THEN 1 * KB
  ELSE IF part_size <= 4 * MB THEN 2 * KB
  ELSE IF part_size <= 16 * MB THEN 4 * KB
  ELSE IF part_size <= 64 * MB THEN 8 * KB
  ELSE IF part_size <= 256 * MB THEN 16 * KB
  ELSE IF part_size <= 1 * GB THEN 32 * KB
  ELSE 64 * KB

RECURSIVE Log2(_)
Log2(n) == IF n <= 1 THEN 0 ELSE 1 + Log2(n \div 2)

\* the header the formatter writes at the start of a zeroed buffer
zealfsv2_format(size) ==
  LET page_size_bytes == zealfsv2_page_size(size)
      fat_pages_count == 1 + (IF page_size_bytes = 256 THEN 0 ELSE 1)
  IN [k |-> "zfs",
      magic |-> 90,
      version |-> 2,
      page_size |-> Log2(page_size_bytes \div 256),
      bitmap_size |-> ((size \div page_size_bytes) \div 8) % 65536,
      free_pages |-> ((size \div page_size_bytes) - 1 - fat_pages_count) % 65536,
      bitmap0 |-> 3 + (IF fat_pages_count > 1 THEN 4 ELSE 0)]

\* ---------------------------------------------------------------- disk.c
ALIGN_UP(size, bound) ==
  LET sum == (size + bound - 1) % U32
  IN sum - (sum % bound)

s_valid_sizes(index) == 32 * KB * (2 ^ index)

disk_is_invalid(disk) == ~disk.valid

disk_find_free_partition(disk) ==
  IF ~disk.has_mbr
  THEN (IF disk.staged_partitions[0].active THEN -1 ELSE 0)
  ELSE IF \E i \in 0..(MAX_PART_COUNT - 1) : ~disk.staged_partitions[i].active
       THEN CHOOSE i \in 0..(MAX_PART_COUNT - 1) :
              /\ ~disk.staged_partitions[i].active
              /\ \A j \in 0..(i - 1) : disk.staged_partitions[j].active
       ELSE -1

disk_write_mbr_entry(part) ==
  [boot |-> 0, chs |-> 255, type |-> part.type, chse |-> 255,
   lba |-> LE32(part.start_lba), size |-> LE32(part.size_sectors)]

\* staged_mbr with the 16 bytes of one table entry replaced
SetMbrEntry(mbr, idx, entry) ==
  [mbr EXCEPT !.hi =
     TabUnit([UnitEntries(mbr.hi) EXCEPT ![idx + 1] = entry], UnitSig(mbr.hi))]

\* p->active of a decoded table entry
EntryActive(e) ==
  \/ e.boot >= 128
  \/ e.type # 0
  \/ FromLE32(e.lba) # 0
  \/ FromLE32(e.size) # 0

ParseEntry(e) ==
  [active |-> EntryActive(e), type |-> e.type, start_lba |-> FromLE32(e.lba),
   size_sectors |-> FromLE32(e.size), data |-> NULL, data_len |-> 0]

\* the lowest inactive slot of a table, -1 when there is none
FirstInactive(parts) ==
  IF \E i \in 0..(MAX_PART_COUNT - 1) : ~parts[i].active
  THEN CHOOSE i \in 0..(MAX_PART_COUNT - 1) :
         /\ ~parts[i].active
         /\ \A j \in 0..(i - 1) : parts[j].active
  ELSE -1

disk_parse_mbr_partitions(disk) ==
  IF ~disk.has_mbr
  THEN LET zfs == UnitByte0(disk.mbr.lo) = ZEALFS_TYPE /\ UnitByte1(disk.mbr.lo) = 2
           parts == IF zfs
                    THEN [ZeroParts EXCEPT ![0] =
                            [active |-> TRUE, type |-> ZEALFS_TYPE, start_lba |-> 0,
                             size_sectors |-> (disk.size_bytes \div DISK_SECTOR_SIZE) % U32,
                             data |-> NULL, data_len |-> 0]]
                    ELSE ZeroParts
       IN [disk EXCEPT !.partitions = parts,
                       !.has_staged_changes = FALSE,
                       !.free_part_idx = IF zfs THEN -1 ELSE 0,
                       !.staged_partitions = parts]
  ELSE LET parts == [i \in 0..(MAX_PART_COUNT - 1) |->
                       ParseEntry(UnitEntries(disk.mbr.hi)[i + 1])]
       IN [disk EXCEPT !.partitions = parts,
                       !.staged_mbr = disk.mbr,
                       !.has_staged_changes = FALSE,
                       !.free_part_idx = FirstInactive(parts),
                       !.staged_partitions = parts]

\* the insertion loop of disk_largest_free_space: the place of slot i in the
\* sorted list, found from the end
RECURSIVE InsertPos(_, _, _, _)
InsertPos(parts, sorted, j, i) ==
  IF j > 0 /\ parts[sorted[j]].start_lba > parts[i].start_lba
  THEN InsertPos(parts, sorted, j - 1, i)
  ELSE j

RECURSIVE SortedIndexes(_, _, _)
SortedIndexes(parts, i, sorted) ==
  IF i >= MAX_PART_COUNT THEN sorted
  ELSE IF parts[i].active
       THEN LET j == InsertPos(parts, sorted, Len(sorted), i)
            IN SortedIndexes(parts, i + 1,
                 SubSeq(sorted, 1, j) \o <<i>> \o SubSeq(sorted, j + 1, Len(sorted)))
       ELSE SortedIndexes(parts, i + 1, sorted)

\* the gap loop: acc = [space, start, prev] (largest_free_space,
\* largest_start_address, previous_end_lba), all uint32_t
RECURSIVE GapLoop(_, _, _, _)
GapLoop(parts, sorted, n, acc) ==
  IF n > Len(sorted) THEN acc
  ELSE LET start_lba == parts[sorted[n]].start_lba
           end_lba == (start_lba + parts[sorted[n]].size_sectors) % U32
           free_space == start_lba - acc.prev
           better == start_lba > acc.prev /\ free_space > acc.space
       IN GapLoop(parts, sorted, n + 1,
            [space |-> IF better THEN free_space ELSE acc.space,
             start |-> IF better THEN acc.prev ELSE acc.start,
             prev |-> end_lba])

disk_largest_free_space(disk) ==
  LET disk_size_sectors == (disk.size_bytes \div DISK_SECTOR_SIZE) % U32
  IN IF ~disk.has_mbr
     THEN [addr |-> 0, size |-> disk.size_bytes]
     ELSE LET sorted == SortedIndexes(disk.staged_partitions, 0, <<>>)
              acc == GapLoop(disk.staged_partitions, sorted, 1,
                             [space |-> 0, start |-> 1, prev |-> 1])
              free_space == SubU32(disk_size_sectors, acc.prev)
              last == free_space > acc.space
              largest_free_space == IF last THEN free_space ELSE acc.space
              largest_start_address == IF last THEN acc.prev ELSE acc.start
          IN [addr |-> Mul512(largest_start_address),
              size |-> Mul512(largest_free_space)]

disk_max_partition_size(disk, align) ==
  LET free == disk_largest_free_space(disk)
      aligned_addr == ALIGN_UP(free.addr, align)
      wasted_bytes == SubU64(aligned_addr, free.addr)
  IN [addr |-> aligned_addr, size |-> SubU64(free.size, wasted_bytes)]

\* calloc(3, page_size) followed by zealfsv2_format: only the first unit of the
\* buffer is not zero
FormatBuffer(part_size_bytes) == [k |-> "buf", first |-> zealfsv2_format(part_size_bytes)]

\* the 256-byte unit number i of a buffer
BufUnit(data, i) == IF i = 0 THEN data.first ELSE ZeroUnit

disk_allocate_partition(disk, lba, sectors_count) ==
  LET part_size_bytes == Mul512(sectors_count)
      idx == disk.free_part_idx
  IN IF disk_is_invalid(disk) THEN disk
     ELSE IF idx = -1 \/ (~disk.has_mbr /\ idx > 0) THEN disk
     ELSE IF idx < 0 \/ idx >= 4 THEN disk
     ELSE LET part == [active |-> TRUE, type |-> 90, start_lba |-> lba,
                       size_sectors |-> sectors_count,
                       data |-> FormatBuffer(part_size_bytes),
                       data_len |-> zealfsv2_page_size(part_size_bytes) * 3]
              staged == [disk EXCEPT !.has_staged_changes = TRUE,
                                     !.staged_partitions[idx] = part,
                                     !.staged_mbr = SetMbrEntry(disk.staged_mbr, idx,
                                                      disk_write_mbr_entry(part))]
          IN [staged EXCEPT !.free_part_idx = disk_find_free_partition(staged)]

\* the two assertions of disk_allocate_partition hold
AllocateAsserts(disk) ==
  LET idx == disk.free_part_idx
  IN (~disk_is_invalid(disk) /\ idx >= 0 /\ idx < 4 /\ (disk.has_mbr \/ idx = 0))
       => /\ ~disk.staged_partitions[idx].active
          /\ disk.staged_partitions[idx].data = NULL
          /\ disk.staged_partitions[idx].data_len = 0

\* returns NULL (no error) exactly when the partition was formatted
FormatRefused(disk, partition) ==
  \/ disk_is_invalid(disk)
  \/ partition < 0
  \/ partition >= MAX_PART_COUNT
  \/ ~disk.staged_partitions[partition].active

disk_format_partition(disk, partition) ==
  IF FormatRefused(disk, partition) THEN disk
  ELSE LET part == disk.staged_partitions[partition]
           part_size_bytes == Mul512(part.size_sectors)
       IN [disk EXCEPT !.has_staged_changes = TRUE,
                       !.staged_partitions[partition] =
                          [part EXCEPT !.type = 90,
                                       !.data_len = zealfsv2_page_size(part_size_bytes) * 3,
                                       !.data = FormatBuffer(part_size_bytes)]]

\* a delete that also clears the committed slot
disk_delete_partition_committed(disk, partition) ==
  IF disk_is_invalid(disk) \/ partition < 0 \/ partition >= MAX_PART_COUNT THEN disk
  ELSE IF ~disk.staged_partitions[partition].active THEN disk
  ELSE [disk EXCEPT !.has_staged_changes = TRUE,
                    !.staged_partitions[partition] = ZeroPart,
                    !.partitions[partition] = ZeroPart]

disk_delete_partition(disk, partition) ==
  IF disk_is_invalid(disk) \/ partition < 0 \/ partition >= MAX_PART_COUNT THEN disk
  ELSE IF ~disk.staged_partitions[partition].active THEN disk
  ELSE [disk EXCEPT !.has_staged_changes = TRUE,
                    !.staged_partitions[partition] = ZeroPart,
                    !.free_part_idx = IF disk.free_part_idx = -1 THEN partition
                                      ELSE disk.free_part_idx,
                    !.staged_mbr = SetMbrEntry(disk.staged_mbr, partition,
                                     disk_write_mbr_entry(ZeroPart))]

disk_free_staged_partitions_data(disk) ==
  [disk EXCEPT !.staged_partitions =
     [i \in 0..(MAX_PART_COUNT - 1) |->
        [disk.staged_partitions[i] EXCEPT !.data = NULL, !.data_len = 0]]]

disk_revert_changes(disk) ==
  IF ~disk.has_staged_changes THEN disk
  ELSE LET restored == [disk EXCEPT !.has_staged_changes = FALSE,
                                    !.staged_mbr = disk.mbr,
                                    !.staged_partitions = disk.partitions]
       IN [restored EXCEPT !.free_part_idx = disk_find_free_partition(restored)]

disk_apply_changes(disk) ==
  IF disk_is_invalid(disk) THEN disk
  ELSE LET freed == disk_free_staged_partitions_data(disk)
       IN [freed EXCEPT !.has_staged_changes = FALSE,
                        !.mbr = freed.staged_mbr,
                        !.partitions = freed.staged_partitions]

\* ---------------------------------------------------------------- devices and files
\* A device or file: whether it can be opened, whether it is a regular file,
\* its size in bytes, and its units that are not all zero.
NoUnits == [u \in {} |-> ZeroUnit]

ReadUnit(units, u) == IF u \in DOMAIN units THEN units[u] ELSE ZeroUnit

\* units with the range [first, first + count) replaced by unit `head` followed
\* by zero units
PutUnits(units, first, count, head) ==
  LET keep == [u \in (DOMAIN units) \ (first..(first + count - 1)) |-> units[u]]
  IN IF count > 0 /\ head # ZeroUnit THEN (first :> head) @@ keep ELSE keep

\* write(fd, ...) of `count` units whose first is `head` at unit offset `first`:
\* a block device cannot grow, a file can
DevWrite(d, first, count, head) ==
  LET room == IF d.is_file THEN count
              ELSE IF (d.size \div UnitSize) - first < 0 THEN 0
              ELSE IF (d.size \div UnitSize) - first < count
                   THEN (d.size \div UnitSize) - first
                   ELSE count
      grown == IF d.is_file /\ (first + count) * UnitSize > d.size
               THEN (first + count) * UnitSize ELSE d.size
  IN [done |-> room,
      d |-> [d EXCEPT !.units = PutUnits(d.units, first, room, head), !.size = grown]]

\* The points where the operating system can make disk_write_changes fail, and
\* how many units a failing write still transfers.
NoFail == [at |-> "none", slot |-> 0, partial |-> 0]

Failures ==
  {NoFail, [at |-> "open", slot |-> 0, partial |-> 0]}
    \cup [at : {"mbr"}, slot : {0}, partial : {0, 1}]
    \cup [at : {"seek"}, slot : 0..(MAX_PART_COUNT - 1), partial : {0}]
    \cup [at : {"write"}, slot : 0..(MAX_PART_COUNT - 1), partial : {0, 1}]

\* the loop of disk_write_changes over the staged slots, from slot i on
RECURSIVE WritePartitions(_, _, _, _)
WritePartitions(disk, d, i, fail) ==
  IF i >= MAX_PART_COUNT THEN [err |-> FALSE, d |-> d]
  ELSE LET part == disk.staged_partitions[i]
       IN IF part.data # NULL /\ part.data_len # 0
          THEN LET first == Mul512(part.start_lba) \div UnitSize
                   count == part.data_len \div UnitSize
               IN IF fail.at = "seek" /\ fail.slot = i THEN [err |-> TRUE, d |-> d]
                  ELSE IF fail.at = "write" /\ fail.slot = i
                  THEN [err |-> TRUE,
                        d |-> DevWrite(d, first, fail.partial, BufUnit(part.data, 0)).d]
                  ELSE LET wr == DevWrite(d, first, count, BufUnit(part.data, 0))
                       IN IF wr.done # count THEN [err |-> TRUE, d |-> wr.d]
                          ELSE WritePartitions(disk, wr.d, i + 1, fail)
          ELSE WritePartitions(disk, d, i + 1, fail)

\* the 512 bytes of staged_mbr written at offset 0
WriteMbr(disk, d, fail) ==
  IF ~disk.has_mbr THEN [err |-> FALSE, d |-> d]
  ELSE IF fail.at = "mbr"
  THEN [err |-> TRUE,
        d |-> IF fail.partial = 0 THEN d
              ELSE [d EXCEPT !.units = PutUnits(d.units, 0, 1, disk.staged_mbr.lo)]]
  ELSE [err |-> FALSE,
        d |-> [d EXCEPT !.units =
                 PutUnits(PutUnits(d.units, 0, 1, disk.staged_mbr.lo),
                          1, 1, disk.staged_mbr.hi)]]

\* a commit that applies the changes in memory although a write failed
disk_write_changes_applies_on_error(disk, d, fail) ==
  IF ~d.present \/ fail.at = "open" THEN [err |-> TRUE, d |-> d, disk |-> disk]
  ELSE LET m == WriteMbr(disk, d, fail)
           w == WritePartitions(disk, m.d, 0, fail)
       IN IF m.err THEN [err |-> TRUE, d |-> m.d, disk |-> disk]
          ELSE [err |-> w.err, d |-> w.d, disk |-> disk_apply_changes(disk)]

\* disk_write_changes: [err, d, disk], the error, the device and the disk after it
disk_write_changes(disk, d, fail) ==
  IF ~d.present \/ fail.at = "open" THEN [err |-> TRUE, d |-> d, disk |-> disk]
  ELSE LET m == WriteMbr(disk, d, fail)
       IN IF m.err THEN [err |-> TRUE, d |-> m.d, disk |-> disk]
          ELSE LET w == WritePartitions(disk, m.d, 0, fail)
               IN IF w.err THEN [err |-> TRUE, d |-> w.d, disk |-> disk]
                  ELSE [err |-> FALSE, d |-> w.d, disk |-> disk_apply_changes(disk)]

\* ---------------------------------------------------------------- registry
ZeroDisk ==
  [path |-> "", size_bytes |-> 0, valid |-> FALSE, is_image |-> FALSE,
   has_mbr |-> FALSE, mbr |-> ZeroMbr, partitions |-> ZeroParts,
   has_staged_changes |-> FALSE, staged_mbr |-> ZeroMbr,
   staged_partitions |-> ZeroParts, free_part_idx |-> 0]

ZeroDisks == [i \in 0..(MAX_DISKS - 1) |-> ZeroDisk]

\* the first 512 bytes of a device
ReadSector0(d) == [lo |-> ReadUnit(d.units, 0), hi |-> ReadUnit(d.units, 1)]

HasSignature(mbr) == UnitSig(mbr.hi) = MbrSig

\* the disk_info_t filled by a successful disk_try_open
disk_try_open(path, d) ==
  [ZeroDisk EXCEPT !.path = path,
                   !.size_bytes = d.size,
                   !.valid = d.size <= MAX_DISK_SIZE,
                   !.mbr = ReadSector0(d),
                   !.has_mbr = HasSignature(ReadSector0(d))]

\* the raw devices disk_list probes, in order
DevicePaths == <<"rdisk1">>

ImagePaths == {"a.img"}

Paths == {DevicePaths[i] : i \in 1..Len(DevicePaths)} \cup ImagePaths

RECURSIVE disk_list(_, _, _)
disk_list(devs, i, found) ==
  IF i > Len(DevicePaths) \/ Len(found) >= MAX_DISKS THEN found
  ELSE IF devs[DevicePaths[i]].present
       THEN disk_list(devs, i + 1,
                      Append(found, disk_try_open(DevicePaths[i], devs[DevicePaths[i]])))
       ELSE disk_list(devs, i + 1, found)

\* disk_get_current does not return NULL
HasCurrent == disk_count > 0 /\ selected_disk >= 0 /\ selected_disk < disk_count

CurrentDisk == disks[selected_disk]

RECURSIVE ImagesOf(_, _, _)
ImagesOf(all, count, i) ==
  IF i >= count THEN <<>>
  ELSE IF all[i].is_image THEN <<all[i]>> \o ImagesOf(all, count, i + 1)
       ELSE ImagesOf(all, count, i + 1)

RECURSIVE FirstValid(_, _)
FirstValid(list, i) ==
  IF i > Len(list) THEN -1
  ELSE IF list[i].valid THEN i - 1 ELSE FirstValid(list, i + 1)

\* a refresh that never looks at the staged changes
RefreshNeverRefused(all, count, selected) == FALSE

\* the current disk has staged changes: the refresh is refused
RefreshRefused(all, count, selected) == count > 0 /\ all[selected].has_staged_changes

\* disks_refresh: [err, disks, disk_count, selected_disk]
disks_refresh(all, count, selected, devs) ==
  IF RefreshRefused(all, count, selected)
  THEN [err |-> TRUE, disks |-> all, disk_count |-> count, selected_disk |-> selected]
  ELSE LET backup_images == ImagesOf(all, count, 0)
           listed == disk_list(devs, 1, <<>>)
           parsed == [i \in 1..Len(listed) |-> disk_parse_mbr_partitions(listed[i])]
           room == MAX_DISKS - Len(parsed)
           kept == IF Len(backup_images) <= room THEN backup_images
                   ELSE SubSeq(backup_images, 1, room)
           joined == parsed \o kept
       IN [err |-> FALSE,
           disks |-> [i \in 0..(MAX_DISKS - 1) |->
                        IF i < Len(joined) THEN joined[i + 1] ELSE ZeroDisk],
           disk_count |-> Len(joined),
           selected_disk |-> FirstValid(parsed, 1)]

\* index of the opened image with this path, -1 when it is not opened
disk_image_opened(all, count, path) ==
  IF \E i \in 0..(count - 1) : all[i].is_image /\ all[i].path = path
  THEN CHOOSE i \in 0..(count - 1) :
         /\ all[i].is_image /\ all[i].path = path
         /\ \A j \in 0..(i - 1) : ~(all[j].is_image /\ all[j].path = path)
  ELSE -1

\* disk_open_image_file for the file the dialog returned:
\* [index, disks, disk_count]
disk_open_image_file(all, count, devs, path) ==
  IF count >= MAX_DISKS THEN [index |-> -1, disks |-> all, disk_count |-> count]
  ELSE IF disk_image_opened(all, count, path) # -1
  THEN [index |-> disk_image_opened(all, count, path), disks |-> all, disk_count |-> count]
  ELSE IF ~devs[path].present THEN [index |-> -1, disks |-> all, disk_count |-> count]
  ELSE LET read == [ZeroDisk EXCEPT !.size_bytes = devs[path].size,
                                    !.mbr = ReadSector0(devs[path]),
                                    !.valid = TRUE,
                                    !.is_image = TRUE,
                                    !.has_mbr = HasSignature(ReadSector0(devs[path]))]
           disk == [disk_parse_mbr_partitions(read) EXCEPT !.path = path]
       IN [index |-> count, disks |-> [all EXCEPT ![count] = disk],
           disk_count |-> count + 1]

\* the file disk_create_image writes
NewImageFile(size, init_mbr) ==
  [present |-> TRUE, is_file |-> TRUE, size |-> size,
   units |-> IF init_mbr
             THEN 1 :> TabUnit(<<ZeroEntry, ZeroEntry, ZeroEntry, ZeroEntry>>, MbrSig)
             ELSE NoUnits]

\* disk_create_image: [index, disks, disk_count, file]
disk_create_image(all, count, path, size, init_mbr) ==
  IF count >= MAX_DISKS
  THEN [index |-> -1, disks |-> all, disk_count |-> count, written |-> FALSE]
  ELSE LET opened == disk_image_opened(all, count, path)
           new_index == IF opened # -1 THEN opened ELSE count
           fresh == [ZeroDisk EXCEPT !.size_bytes = size,
                                     !.valid = TRUE,
                                     !.is_image = TRUE,
                                     !.has_mbr = init_mbr,
                                     !.mbr = IF init_mbr
                                             THEN ReadSector0(NewImageFile(size, init_mbr))
                                             ELSE ZeroMbr]
           disk == [disk_parse_mbr_partitions(fresh) EXCEPT !.path = path]
       IN [index |-> new_index, disks |-> [all EXCEPT ![new_index] = disk],
           disk_count |-> IF new_index = count THEN count + 1 ELSE count,
           written |-> TRUE]

\* ---------------------------------------------------------------- zealfs_v2.c
\* The results of the engine's functions are records: err and n for the value
\* returned, and the objects the call has changed.  The loops over the pages
\* of a file are cut in halves, and a value written CHOOSE r \in {f(v) : v \in {e}}
\* is f(e) with e computed once.
NAME_MAX_LEN == 16
IS_DIR == 1
IS_OCCUPIED == 128
U16 == 65536

\* sizeof(zealfs_entry_t)
EntrySize == 32

\* sizeof(zealfs_header_t): the flexible pages_bitmap is not part of the struct
HeaderStructSize == 7

\* zealfs_header_t with its bitmap; the bitmap is the set of the bits that are 1
ZeroHeader ==
  [magic |-> 0, version |-> 0, bitmap_size |-> 0, free_pages |-> 0,
   page_size |-> 0, pages_bitmap |-> {}]

BitsOf(byte) == {i \in 0..7 : (byte \div (2 ^ i)) % 2 = 1}

\* the bytes of a formatted first unit read as a zealfs_header_t
HeaderOf(u) ==
  IF u.k = "zfs"
  THEN [magic |-> u.magic, version |-> u.version, bitmap_size |-> u.bitmap_size,
        free_pages |-> u.free_pages, page_size |-> u.page_size,
        pages_bitmap |-> BitsOf(u.bitmap0)]
  ELSE ZeroHeader

\* zealfs_entry_t without its date; a name is the tuple of its characters
ZeroFsEntry == [flags |-> 0, name |-> <<>>, start_page |-> 0, size |-> 0]

NoWords == [p \in {} |-> 0]

NoEntries == [a \in {} |-> ZeroFsEntry]

\* what a page holds: bytes at .. at+n-1 of the page are the bytes
\* src .. src+n-1 of the written stream, every other byte is something else
NoPages == [p \in {} |-> [at |-> 0, n |-> 0, src |-> 0]]

\* A partition as the engine sees it through ctx->read and ctx->write: the
\* header with its bitmap at address 0, the directory entries by address,
\* the 16-bit words of the FAT pages by index, and the data pages.
\* disk_format_partition leaves a header followed by zero bytes.
FormattedPartition(size) ==
  [header |-> HeaderOf(BufUnit(FormatBuffer(size), 0)),
   entries |-> NoEntries, fat |-> NoWords, pages |-> NoPages]

\* the static zealfs_ctx of the partition viewer when the program starts
StaticCtx == [header |-> ZeroHeader, header_size |-> 0, fat |-> NoWords, fat_size |-> 0]

\* a result: err is "none" and n the returned count, or err names the error
Ok(n) == [err |-> "none", n |-> n]
Err(e) == [err |-> e, n |-> -1]

MinOf(S) == CHOOSE m \in S : \A q \in S : m <= q
MaxOf(S) == CHOOSE m \in S : \A q \in S : m >= q

ADDR_FROM_PAGE(header, page) == (page * 256 * (2 ^ header.page_size)) % U32

\* the ALIGN_UP of zealfs_v2.c, on int
ALIGN_UP_int(size, bound) == ((size + bound - 1) \div bound) * bound

get_fs_header_size(header) ==
  ALIGN_UP_int(HeaderStructSize + header.bitmap_size, EntrySize)

get_page_size(header) == 256 * (2 ^ header.page_size)

\* the words with an index below n come from the device, the others stay
LoadWords(cache, words, n) ==
  [p \in {q \in DOMAIN cache : q >= n} \cup {q \in DOMAIN words : q < n} |->
     IF p < n THEN words[p] ELSE cache[p]]

\* every read of the device succeeds
check_header(ctx, p) ==
  IF ctx.header.magic = 0
  THEN LET header == p.header
           page_size == get_page_size(header)
           fat_size == IF page_size = 256 THEN page_size ELSE 2 * page_size
       IN [header |-> header,
           header_size |-> get_fs_header_size(header),
           fat |-> LoadWords(ctx.fat, p.fat, fat_size \div 2),
           fat_size |-> fat_size]
  ELSE ctx

get_root_dir_addr(header) == get_fs_header_size(header)

get_root_dir_max_entries(header) ==
  ((get_page_size(header) - get_fs_header_size(header)) \div EntrySize) % U16

get_dir_max_entries(header) == (get_page_size(header) \div EntrySize) % U16

get_next_from_fat(ctx, current_page) ==
  IF current_page \in DOMAIN ctx.fat THEN ctx.fat[current_page] ELSE 0

SetWord(words, i, v) ==
  IF v = 0
  THEN [p \in DOMAIN words \ {i} |-> words[p]]
  ELSE [p \in DOMAIN words \cup {i} |-> IF p = i THEN v ELSE words[p]]

set_next_in_fat(ctx, current_page, next_page) ==
  [ctx EXCEPT !.fat = SetWord(@, current_page, next_page)]

\* the first byte that is not 0xff, then its lowest 0 bit
allocate_page(header) ==
  LET free == {p \in 0..(header.bitmap_size * 8 - 1) : p \notin header.pages_bitmap}
  IN IF free = {}
     THEN [page |-> 0, header |-> header]
     ELSE [page |-> MinOf(free),
           header |-> [header EXCEPT !.pages_bitmap = @ \cup {MinOf(free)},
                                     !.free_pages = (@ + U16 - 1) % U16]]

\* free_pages * page size, returned as uint32_t
zealfs_free_space(ctx, p) ==
  LET c == check_header(ctx, p)
  IN (c.header.free_pages * get_page_size(c.header)) % U32

EntryAt(p, addr) == IF addr \in DOMAIN p.entries THEN p.entries[addr] ELSE ZeroFsEntry

IsOccupied(e) == (e.flags \div IS_OCCUPIED) % 2 = 1

\* A path is the sequence of its names: "/a/b" is <<a, b>> and "/" is <<>>.
\* browse_path returns res (1 found, 0 not found, -1 name too long) and out.
RECURSIVE browse_path(_, _, _, _, _)
RECURSIVE BrowseLoop(_, _, _, _, _, _, _)
BrowseLoop(ctx, p, path, entries_addr, max_entries, current_page, out) ==
  LET header == ctx.header
      slash == Len(path) > 1
      slot(i) == EntryAt(p, entries_addr + i * EntrySize)
      hits == {i \in 0..(max_entries - 1) :
                 IsOccupied(slot(i)) /\ slot(i).name = Head(path)}
      stop == IF hits = {} THEN max_entries ELSE MinOf(hits)
      frees == {i \in 0..(stop - 1) : ~IsOccupied(slot(i))}
      seen == IF ~slash /\ frees # {}
              THEN [out EXCEPT !.free_entry_addr = entries_addr + MaxOf(frees) * EntrySize]
              ELSE out
      next == get_next_from_fat(ctx, current_page)
  IN IF hits # {}
     THEN IF ~slash
          THEN [res |-> 1,
                out |-> [seen EXCEPT !.entry_addr = entries_addr + stop * EntrySize,
                                     !.entry = slot(stop)]]
          ELSE browse_path(ctx, p, Tail(path),
                           ADDR_FROM_PAGE(header, slot(stop).start_page), FALSE)
     ELSE IF next = 0
          THEN [res |-> 0, out |-> seen]
          ELSE BrowseLoop(ctx, p, path, ADDR_FROM_PAGE(header, next),
                          get_dir_max_entries(header), next,
                          [seen EXCEPT !.last_dir_page = next])

browse_path(ctx, p, path, entries_addr, root) ==
  LET header == ctx.header
      max_entries == IF root THEN get_root_dir_max_entries(header)
                     ELSE get_dir_max_entries(header)
      current_page == entries_addr \div get_page_size(header)
      out == [last_dir_page |-> current_page, free_entry_addr |-> 0,
              entry_addr |-> 0, entry |-> ZeroFsEntry]
  IN IF Len(Head(path)) > NAME_MAX_LEN
     THEN [res |-> -1, out |-> out]
     ELSE BrowseLoop(ctx, p, path, entries_addr, max_entries, current_page, out)

\* ---- ctx->write: what one call leaves on the partition
ClearPage(page) == [k |-> "clear", page |-> page]
PutEntry(addr, entry) == [k |-> "entry", addr |-> addr, entry |-> entry]
PutHeader(header) == [k |-> "header", header |-> header]
PutFat(ctx) == [k |-> "fat", words |-> LoadWords(NoWords, ctx.fat, ctx.fat_size \div 2)]
PutData(addr, count, src) == [k |-> "data", addr |-> addr, count |-> count, src |-> src]

ApplyWrite(p, w) ==
  LET page_size == get_page_size(p.header)
  IN CASE w.k = "clear" ->
            [p EXCEPT !.entries = [a \in {b \in DOMAIN @ : b \div page_size # w.page} |-> @[a]],
                      !.pages = [q \in DOMAIN @ \cup {w.page} |->
                                   IF q = w.page THEN [at |-> 0, n |-> 0, src |-> 0] ELSE @[q]]]
       [] w.k = "entry" ->
            [p EXCEPT !.entries = [a \in DOMAIN @ \cup {w.addr} |->
                                     IF a = w.addr THEN w.entry ELSE @[a]]]
       [] w.k = "header" -> [p EXCEPT !.header = w.header]
       [] w.k = "fat" -> [p EXCEPT !.fat = w.words]
       [] w.k = "data" ->
            [p EXCEPT !.pages = [q \in DOMAIN @ \cup {w.addr \div page_size} |->
                                   IF q = w.addr \div page_size
                                   THEN [at |-> w.addr % page_size, n |-> w.count, src |-> w.src]
                                   ELSE @[q]]]

RECURSIVE ApplyWrites(_, _)
ApplyWrites(p, writes) ==
  IF writes = <<>> THEN p
  ELSE ApplyWrites(ApplyWrite(p, Head(writes)), Tail(writes))

\* the calls after the failing one reach the partition, the earlier ones do
\* not: the writes of an operation in the opposite order
WrittenAfter(writes, fail) ==
  IF fail = 0 \/ fail > Len(writes) THEN writes
  ELSE SubSeq(writes, fail + 1, Len(writes))

\* the calls before the failing one reach the partition; fail = 0: none fails
Written(writes, fail) ==
  IF fail = 0 \/ fail > Len(writes) THEN writes ELSE SubSeq(writes, 1, fail - 1)

Failed(writes, fail) == fail # 0 /\ fail <= Len(writes)

\* *header = header_backup copies the struct, not the bitmap that follows it
RestoreHeader(header, header_backup) ==
  [header_backup EXCEPT !.pages_bitmap = header.pages_bitmap]

\* zealfs_create_both from its writes on: ctx holds the pages taken and fdn is
\* the handle filled in
CreateWritten(ctx, p, header_backup, writes, fdn, fail) ==
  IF Failed(writes, fail)
  THEN Err("EIO") @@ [ctx |-> [ctx EXCEPT !.header = RestoreHeader(@, header_backup)],
                      p |-> ApplyWrites(p, Written(writes, fail)),
                      fd |-> fdn]
  ELSE Ok(0) @@ [ctx |-> ctx, p |-> ApplyWrites(p, writes), fd |-> fdn]

\* zealfs_create_both from the allocation of the entry's page on: ctx2 is the
\* context after the directory was extended, if it had to be
CreateEntry(ctx2, p, header_backup, isdir, filename, new_page_dir, free_entry_addr, fd0, fail) ==
  LET file == allocate_page(ctx2.header)
      newp == file.page
      ctx3 == set_next_in_fat([ctx2 EXCEPT !.header = file.header], newp, 0)
      entry == [flags |-> IS_OCCUPIED + isdir, name |-> filename, start_page |-> newp,
                size |-> IF isdir = 1 THEN get_page_size(ctx2.header) ELSE 0]
  IN IF Len(filename) > NAME_MAX_LEN
       THEN Err("ENAMETOOLONG") @@ [ctx |-> ctx2, p |-> p, fd |-> fd0]
     ELSE IF newp = 0
       THEN Err("ENOSPC")
            @@ [ctx |-> [ctx2 EXCEPT !.header = RestoreHeader(@, header_backup)],
                p |-> p, fd |-> fd0]
     ELSE CHOOSE r \in
            {CreateWritten(c, p, header_backup,
                           <<ClearPage(newp)>>
                             \o (IF new_page_dir # 0 THEN <<ClearPage(new_page_dir)>>
                                 ELSE <<>>)
                             \o <<PutEntry(free_entry_addr, entry), PutHeader(c.header),
                                  PutFat(c)>>,
                           [entry |-> entry, entry_addr |-> free_entry_addr], fail) :
               c \in {ctx3}} : TRUE

\* zealfs_create_both after browse_path returned b in the mounted context ctx1
CreateBrowsed(ctx1, b, p, isdir, path, fd0, fail) ==
  LET extend == b.out.free_entry_addr = 0
      dir == IF extend THEN allocate_page(ctx1.header)
             ELSE [page |-> 0, header |-> ctx1.header]
      new_page_dir == dir.page
      ctx2 == IF new_page_dir # 0
              THEN set_next_in_fat(
                     set_next_in_fat([ctx1 EXCEPT !.header = dir.header], new_page_dir, 0),
                     b.out.last_dir_page, new_page_dir)
              ELSE ctx1
      free_entry_addr == IF extend THEN ADDR_FROM_PAGE(ctx1.header, new_page_dir)
                         ELSE b.out.free_entry_addr
  IN IF b.res < 0
       THEN Err("ERROR") @@ [ctx |-> ctx1, p |-> p, fd |-> fd0]
     ELSE IF b.res = 1
       THEN Err("EEXIST") @@ [ctx |-> ctx1, p |-> p, fd |-> fd0]
     ELSE IF extend /\ new_page_dir = 0
       THEN Err("ENOSPC") @@ [ctx |-> ctx1, p |-> p, fd |-> fd0]
     ELSE CHOOSE r \in
            {CreateEntry(c, p, ctx1.header, isdir, path[Len(path)], new_page_dir,
                         free_entry_addr, fd0, fail) : c \in {ctx2}} : TRUE

zealfs_create_both(ctx0, p, isdir, path, fd0, fail) ==
  CHOOSE r \in
    UNION {{CreateBrowsed(ctx1, b, p, isdir, path, fd0, fail) :
              b \in {browse_path(ctx1, p, path, get_root_dir_addr(ctx1.header), TRUE)}} :
           ctx1 \in {check_header(ctx0, p)}} : TRUE

zealfs_create(path, ctx, p, fd0, fail) == zealfs_create_both(ctx, p, 0, path, fd0, fail)

zealfs_mkdir(path, ctx, p, fd0, fail) == zealfs_create_both(ctx, p, 1, path, fd0, fail)

zealfs_open(path, ctx0, p, fd0) ==
  LET ctx == check_header(ctx0, p)
  IN IF path = <<>>
       THEN Err("EISDIR") @@ [ctx |-> ctx, fd |-> fd0]
     ELSE CHOOSE r \in
       {IF b.res # 0
          THEN IF b.out.entry.flags % 2 = 0
               THEN Ok(0) @@ [ctx |-> ctx,
                              fd |-> [entry |-> b.out.entry, entry_addr |-> b.out.entry_addr]]
               ELSE Err("EISDIR") @@ [ctx |-> ctx, fd |-> fd0]
        ELSE Err("ENOENT") @@ [ctx |-> ctx, fd |-> fd0] :
          b \in {browse_path(ctx, p, path, get_root_dir_addr(ctx.header), TRUE)}} : TRUE

\* count bytes of the partition from addr on, as a piece of the written
\* stream (src >= 0) or as other bytes (src = -1)
ReadBytes(p, addr, count) ==
  LET page_size == get_page_size(p.header)
      page == addr \div page_size
      off == addr % page_size
  IN IF /\ page \in DOMAIN p.pages
        /\ p.pages[page].at <= off
        /\ off + count <= p.pages[page].at + p.pages[page].n
     THEN [src |-> p.pages[page].src + (off - p.pages[page].at), n |-> count]
     ELSE [src |-> -1, n |-> count]

\* the caller's buffer after one more piece was copied to its end
AppendPiece(out, piece) ==
  IF out = <<>> THEN <<piece>>
  ELSE LET last == out[Len(out)]
       IN IF \/ (last.src >= 0 /\ piece.src = last.src + last.n)
             \/ (last.src = -1 /\ piece.src = -1)
          THEN [out EXCEPT ![Len(out)] = [src |-> last.src, n |-> last.n + piece.n]]
          ELSE Append(out, piece)

RECURSIVE FollowFat(_, _, _)
FollowFat(ctx, current_page, jump_pages) ==
  IF jump_pages = 0 THEN current_page
  ELSE FollowFat(ctx, get_next_from_fat(ctx, current_page), jump_pages - 1)

\* one turn of the copy loop of zealfs_read; r is the loop's state
ReadTurn(ctx, p, r) ==
  LET count == IF get_page_size(ctx.header) - r.offset_in_page < r.size
               THEN get_page_size(ctx.header) - r.offset_in_page ELSE r.size
      page_addr == ADDR_FROM_PAGE(ctx.header, r.current_page)
      piece == ReadBytes(p, page_addr + r.offset_in_page, count)
  IN [current_page |-> IF r.size # count THEN get_next_from_fat(ctx, r.current_page)
                       ELSE r.current_page,
      offset_in_page |-> 0,
      size |-> r.size - count,
      out |-> AppendPiece(r.out, piece)]

\* at most turns turns of the loop, which ends when size is 0
RECURSIVE ReadLoop(_, _, _, _)
ReadLoop(ctx, p, r, turns) ==
  IF r.size = 0 \/ turns = 0 THEN r
  ELSE IF turns = 1 THEN ReadTurn(ctx, p, r)
  ELSE CHOOSE end \in {ReadLoop(ctx, p, half, turns - (turns \div 2)) :
                        half \in {ReadLoop(ctx, p, r, turns \div 2)}} : TRUE

zealfs_read(ctx0, p, fd0, size, offset) ==
  LET ctx == check_header(ctx0, p)
      data_bytes_per_page == get_page_size(ctx.header)
      jump_pages == offset \div data_bytes_per_page
      offset_in_page == offset % data_bytes_per_page
      remaining_in_file == SubU32(fd0.entry.size, offset)
      clamped == IF remaining_in_file < size THEN remaining_in_file ELSE size
      current_page == FollowFat(ctx, fd0.entry.start_page, jump_pages)
  IN IF fd0 = NULL THEN Err("ERROR") @@ [ctx |-> ctx, out |-> <<>>]
     ELSE IF size = 0 THEN Ok(0) @@ [ctx |-> ctx, out |-> <<>>]
     ELSE IF offset > fd0.entry.size THEN Err("assert") @@ [ctx |-> ctx, out |-> <<>>]
     ELSE Ok(clamped)
          @@ [ctx |-> ctx,
              out |-> ReadLoop(ctx, p,
                               [current_page |-> current_page,
                                offset_in_page |-> offset_in_page,
                                size |-> clamped, out |-> <<>>],
                               clamped \div data_bytes_per_page + 2).out]

allocate_next(ctx, current_page) ==
  LET a == allocate_page(ctx.header)
  IN IF a.page = 0 THEN [next |-> -1, ctx |-> ctx]
     ELSE [next |-> a.page,
           ctx |-> set_next_in_fat([ctx EXCEPT !.header = a.header], current_page, a.page)]

\* the seek of zealfs_write: err, the context and the page reached
RECURSIVE SeekWrite(_, _, _)
SeekWrite(ctx, current_page, jump_pages) ==
  IF jump_pages = 0 THEN [err |-> "none", ctx |-> ctx, page |-> current_page]
  ELSE LET next_page == get_next_from_fat(ctx, current_page)
           a == allocate_next(ctx, current_page)
       IN IF next_page # 0 THEN SeekWrite(ctx, next_page, jump_pages - 1)
          ELSE IF jump_pages # 1 THEN [err |-> "ESPIPE", ctx |-> ctx, page |-> current_page]
          ELSE IF a.next <= 0 THEN [err |-> "ENOSPC", ctx |-> a.ctx, page |-> current_page]
          ELSE SeekWrite(a.ctx, a.next, jump_pages - 1)

\* One turn of the copy loop of zealfs_write; w is the loop's state: buf is
\* the place of the next byte of the caller's buffer in the written stream,
\* fail the number of the ctx->write call that fails (0: none).
WriteTurn(w) ==
  LET page_addr == ADDR_FROM_PAGE(w.ctx.header, w.current_page)
      count == IF get_page_size(w.ctx.header) - w.offset_in_page < w.size
               THEN get_page_size(w.ctx.header) - w.offset_in_page ELSE w.size
      next == get_next_from_fat(w.ctx, w.current_page)
      a == allocate_next(w.ctx, w.current_page)
      copied == [w EXCEPT !.p = ApplyWrite(@, PutData(page_addr + w.offset_in_page, count, w.buf)),
                          !.fd.entry.size = (@ + count) % U32,
                          !.buf = @ + count,
                          !.size = @ - count,
                          !.offset_in_page = 0,
                          !.fail = IF @ = 0 THEN 0 ELSE @ - 1]
  IN IF w.current_page <= 1 THEN [w EXCEPT !.err = "assert"]
     ELSE IF w.fail = 1 THEN [w EXCEPT !.err = "EIO"]
     ELSE IF next # 0 THEN [copied EXCEPT !.current_page = next]
     ELSE IF copied.size = 0 THEN copied
     ELSE IF a.next < 0 THEN [copied EXCEPT !.err = "ENOSPC", !.ctx = a.ctx]
     ELSE [copied EXCEPT !.current_page = a.next, !.ctx = a.ctx]

\* at most turns turns of the loop, which ends on an error or when size is 0
RECURSIVE WriteLoop(_, _)
WriteLoop(w, turns) ==
  IF w.size = 0 \/ w.err # "none" \/ turns = 0 THEN w
  ELSE IF turns = 1 THEN WriteTurn(w)
  ELSE CHOOSE end \in {WriteLoop(half, turns - (turns \div 2)) :
                        half \in {WriteLoop(w, turns \div 2)}} : TRUE

\* zealfs_write after its copy loop ended in the state w
WriteCopied(w, size) ==
  IF w.err # "none"
  THEN Err(w.err) @@ [ctx |-> w.ctx, p |-> w.p, fd |-> w.fd]
  ELSE Ok(size) @@ [ctx |-> w.ctx, p |-> w.p, fd |-> w.fd]

\* zealfs_write after its seek ended in s
WriteSeeked(s, p, fd0, buf, size, offset_in_page, fail, turns) ==
  IF s.err # "none"
  THEN Err(s.err) @@ [ctx |-> s.ctx, p |-> p, fd |-> fd0]
  ELSE CHOOSE r \in
         {WriteCopied(w, size) :
            w \in {WriteLoop([err |-> "none", ctx |-> s.ctx, p |-> p, fd |-> fd0,
                              current_page |-> s.page, offset_in_page |-> offset_in_page,
                              size |-> size, buf |-> buf, fail |-> fail], turns)}} : TRUE

zealfs_write(ctx0, p, fd0, buf, size, offset, fail) ==
  LET ctx == check_header(ctx0, p)
      data_bytes_per_page == get_page_size(ctx.header)
      jump_pages == offset \div data_bytes_per_page
      offset_in_page == offset % data_bytes_per_page
      remaining_in_page == data_bytes_per_page - offset_in_page
  IN IF fd0 = NULL THEN Err("ERROR") @@ [ctx |-> ctx, p |-> p, fd |-> fd0]
     ELSE IF size = 0 THEN Ok(0) @@ [ctx |-> ctx, p |-> p, fd |-> fd0]
     ELSE IF (zealfs_free_space(ctx, p) + remaining_in_page) % U32 < size
       THEN Err("ENOSPC") @@ [ctx |-> ctx, p |-> p, fd |-> fd0]
     ELSE CHOOSE r \in
            {WriteSeeked(s, p, fd0, buf, size, offset_in_page, fail,
                         size \div data_bytes_per_page + 2) :
               s \in {SeekWrite(ctx, fd0.entry.start_page, jump_pages)}} : TRUE

zealfs_flush(ctx0, p, fd0, fail) ==
  LET ctx == check_header(ctx0, p)
      writes == <<PutEntry(fd0.entry_addr, fd0.entry), PutHeader(ctx.header), PutFat(ctx)>>
  IN IF fd0 = NULL THEN Err("ERROR") @@ [ctx |-> ctx, p |-> p]
     ELSE IF Failed(writes, fail)
       THEN Err("EIO") @@ [ctx |-> ctx, p |-> ApplyWrites(p, Written(writes, fail))]
     ELSE Ok(0) @@ [ctx |-> ctx, p |-> ApplyWrites(p, writes)]

\* the bit of the page is cleared and free_pages counted up, whatever the bit was
free_page(header, page) ==
  [header EXCEPT !.pages_bitmap = @ \ {page}, !.free_pages = (@ + 1) % U16]

\* one turn of the loop that releases a chain; u is the loop's state
FreeTurn(u) ==
  [ctx |-> set_next_in_fat([u.ctx EXCEPT !.header = free_page(@, u.page)], u.page, 0),
   page |-> get_next_from_fat(u.ctx, u.page)]

\* at most turns turns of the loop, which ends when page is 0
RECURSIVE FreeLoop(_, _)
FreeLoop(u, turns) ==
  IF u.page = 0 \/ turns = 0 THEN u
  ELSE IF turns = 1 THEN FreeTurn(u)
  ELSE CHOOSE end \in {FreeLoop(half, turns - (turns \div 2)) :
                        half \in {FreeLoop(u, turns \div 2)}} : TRUE

\* the three writes that end zealfs_unlink and zealfs_rmdir
RemoveWrites(ctx, entry_addr) ==
  <<PutEntry(entry_addr, ZeroFsEntry), PutHeader(ctx.header), PutFat(ctx)>>

\* zealfs_unlink and zealfs_rmdir after their loop ended with the context ctx
Removed(ctx, p, entry_addr, fail) ==
  IF Failed(RemoveWrites(ctx, entry_addr), fail)
  THEN Err("EIO") @@ [ctx |-> ctx,
                      p |-> ApplyWrites(p, Written(RemoveWrites(ctx, entry_addr), fail))]
  ELSE Ok(0) @@ [ctx |-> ctx, p |-> ApplyWrites(p, RemoveWrites(ctx, entry_addr))]

\* "/" is the empty name for browse_path, which no occupied entry holds
zealfs_unlink(path, ctx0, p, fail) ==
  LET ctx == check_header(ctx0, p)
  IN IF path = <<>> THEN Err("ENOENT") @@ [ctx |-> ctx, p |-> p]
     ELSE CHOOSE r \in
       {IF b.res = 0 THEN Err("ENOENT") @@ [ctx |-> ctx, p |-> p]
        ELSE IF b.out.entry.flags % 2 = IS_DIR THEN Err("EISDIR") @@ [ctx |-> ctx, p |-> p]
        ELSE IF b.out.entry_addr = 0 THEN Err("assert") @@ [ctx |-> ctx, p |-> p]
        ELSE CHOOSE q \in
               {Removed(u.ctx, p, b.out.entry_addr, fail) :
                  u \in {FreeLoop([ctx |-> ctx, page |-> b.out.entry.start_page],
                                  ctx.header.bitmap_size * 8)}} : TRUE :
          b \in {browse_path(ctx, p, path, get_root_dir_addr(ctx.header), TRUE)}} : TRUE

\* the entries of the directory page current_page that are occupied
OccupiedIn(ctx, p, current_page) ==
  {i \in 0..(get_dir_max_entries(ctx.header) - 1) :
     IsOccupied(EntryAt(p, ADDR_FROM_PAGE(ctx.header, current_page) + i * EntrySize))}

\* the loop of zealfs_rmdir: a page without occupied entry is released before
\* the next page of the chain is read
RECURSIVE RmdirLoop(_, _, _)
RmdirLoop(ctx, p, current_page) ==
  IF current_page = 0 THEN [err |-> "none", ctx |-> ctx]
  ELSE IF OccupiedIn(ctx, p, current_page) # {} THEN [err |-> "ENOTEMPTY", ctx |-> ctx]
  ELSE RmdirLoop(FreeTurn([ctx |-> ctx, page |-> current_page]).ctx, p,
                 get_next_from_fat(ctx, current_page))

zealfs_rmdir(path, ctx0, p, fail) ==
  LET ctx == check_header(ctx0, p)
  IN IF path = <<>> THEN Err("EACCES") @@ [ctx |-> ctx, p |-> p]
     ELSE CHOOSE r \in
       {IF b.res = 0 THEN Err("ENOENT") @@ [ctx |-> ctx, p |-> p]
        ELSE IF b.out.entry.flags % 2 = 0 THEN Err("ENOTDIR") @@ [ctx |-> ctx, p |-> p]
        ELSE CHOOSE q \in
               {IF l.err # "none" THEN Err(l.err) @@ [ctx |-> l.ctx, p |-> p]
                ELSE Removed(l.ctx, p, b.out.entry_addr, fail) :
                  l \in {RmdirLoop(ctx, p, b.out.entry.start_page)}} : TRUE :
          b \in {browse_path(ctx, p, path, get_root_dir_addr(ctx.header), TRUE)}} : TRUE

zealfs_opendir(path, ctx0, p, fd0) ==
  LET ctx == check_header(ctx0, p)
  IN IF path = <<>>
       THEN Ok(0) @@ [ctx |-> ctx,
                      fd |-> [entry |-> ZeroFsEntry,
                              entry_addr |-> get_root_dir_addr(ctx.header)]]
     ELSE CHOOSE r \in
       {IF b.res = 0 THEN Err("ENOENT") @@ [ctx |-> ctx, fd |-> fd0]
        ELSE IF b.out.entry.flags % 2 = 0 THEN Err("ENOTDIR") @@ [ctx |-> ctx, fd |-> fd0]
        ELSE Ok(0) @@ [ctx |-> ctx,
                       fd |-> [entry |-> b.out.entry,
                               entry_addr |-> ADDR_FROM_PAGE(ctx.header,
                                                             b.out.entry.start_page)]] :
          b \in {browse_path(ctx, p, path, get_root_dir_addr(ctx.header), TRUE)}} : TRUE

\* 32 bytes of the partition read as an entry: in the pages of the FAT the
\* flags are the low byte of a link and the other fields are not entries
RawEntryAt(p, addr) ==
  LET page_size == get_page_size(p.header)
      word == (addr - page_size) \div 2
  IN IF addr \div page_size = 1
     THEN [flags |-> (IF word \in DOMAIN p.fat THEN p.fat[word] ELSE 0) % 256,
           name |-> <<"F", "A", "T">>, start_page |-> 0, size |-> 0]
     ELSE EntryAt(p, addr)

\* the occupied ones of max_entries entries read at addr, in their order
OccupiedAt(p, addr, max_entries) ==
  SelectSeq([i \in 1..max_entries |-> RawEntryAt(p, addr + (i - 1) * EntrySize)],
            IsOccupied)

\* ret_entries after the entries of one more read were copied, up to count
Filled(filled, found, count) ==
  IF Len(filled) + Len(found) <= count THEN filled \o found
  ELSE filled \o SubSeq(found, 1, count - Len(filled))

\* the loop of zealfs_readdir: each turn reads at fd->entry_addr
RECURSIVE ReaddirLoop(_, _, _, _, _, _, _)
ReaddirLoop(ctx, p, fd0, count, max_entries, current_page, filled) ==
  LET now == Filled(filled, OccupiedAt(p, fd0.entry_addr, max_entries), count)
      next == get_next_from_fat(ctx, current_page)
  IN IF Len(now) >= count \/ next = 0 THEN now
     ELSE ReaddirLoop(ctx, p, fd0, count, get_dir_max_entries(ctx.header), next, now)

zealfs_readdir(ctx0, p, fd0, count) ==
  LET ctx == check_header(ctx0, p)
      is_root == fd0.entry_addr = get_root_dir_addr(ctx.header)
      max_entries == IF is_root THEN get_root_dir_max_entries(ctx.header)
                     ELSE get_dir_max_entries(ctx.header)
  IN IF fd0 = NULL THEN Err("ERROR") @@ [ctx |-> ctx, out |-> <<>>]
     ELSE CHOOSE r \in
       {Ok(Len(out)) @@ [ctx |-> ctx, out |-> out] :
          out \in {ReaddirLoop(ctx, p, fd0, count, max_entries,
                               fd0.entry_addr \div get_page_size(ctx.header), <<>>)}} : TRUE

\* memset of the header cache: the FAT cache and the sizes stay
zealfs_destroy(ctx) == [ctx EXCEPT !.header = ZeroHeader]

\* the partition viewer before a partition is opened
ViewerClosed ==
  /\ m_part_ctx = FormattedPartition(s_valid_sizes(0))
  /\ zealfs_ctx = StaticCtx
  /\ fd = NULL
  /\ fs_ret = [op |-> "none", err |-> "none", n |-> 0, out |-> <<>>]
  /\ fs_case = [phase |-> "closed", len |-> 0, free0 |-> 0, bitmap0 |-> {}]

\* ---------------------------------------------------------------- the world at start
DiskSectors == 6000

DiskSize == DiskSectors * DISK_SECTOR_SIZE

\* a table entry written by another tool
ForeignEntry(type, lba, size) ==
  [boot |-> 0, chs |-> 254, type |-> type, chse |-> 254,
   lba |-> LE32(lba), size |-> LE32(size)]

MbrUnits(entries) == (0 :> CodeUnit) @@ (1 :> TabUnit(entries, MbrSig))

\* what sector 0 of the raw device can hold when the tool starts
Catalogue ==
  {NoUnits,
   0 :> zealfsv2_format(DiskSize),
   MbrUnits(<<ZeroEntry, ZeroEntry, ZeroEntry, ZeroEntry>>),
   MbrUnits(<<ForeignEntry(11, 1, 4999), ZeroEntry, ZeroEntry, ZeroEntry>>),
   MbrUnits(<<ForeignEntry(131, 0, 2048), ZeroEntry, ZeroEntry, ZeroEntry>>),
   MbrUnits(<<ForeignEntry(131, 100, 4000), ForeignEntry(131, 200, 100),
              ZeroEntry, ZeroEntry>>),
   MbrUnits(<<ForeignEntry(131, 4096, 4096), ZeroEntry, ZeroEntry, ZeroEntry>>),
   MbrUnits(<<ForeignEntry(131, 0, 0), ZeroEntry, ZeroEntry, ZeroEntry>>)}

AbsentFile == [present |-> FALSE, is_file |-> TRUE, size |-> 0, units |-> NoUnits]

\* the sizes of the raw device: a card, and a drive above MAX_DISK_SIZE
DeviceSizes == {DiskSize, MAX_DISK_SIZE + DISK_SECTOR_SIZE}

\* main() calls disks_refresh() once on the zeroed registry
Init ==
  \E present \in BOOLEAN, units \in Catalogue, image \in BOOLEAN, size \in DeviceSizes :
    /\ present \/ (units = NoUnits /\ size = DiskSize)
    /\ dev = [p \in Paths |->
                IF p \in ImagePaths
                THEN (IF image THEN NewImageFile(s_valid_sizes(0), TRUE) ELSE AbsentFile)
                ELSE [present |-> present, is_file |-> FALSE,
                      size |-> size, units |-> units]]
    /\ LET r == disks_refresh(ZeroDisks, 0, 0, dev)
       IN /\ disks = r.disks
          /\ disk_count = r.disk_count
          /\ selected_disk = r.selected_disk
    /\ ret = [op |-> "disks_refresh", err |-> FALSE]
    /\ aborted = FALSE
    /\ steps = 0
    /\ ViewerClosed

\* ---------------------------------------------------------------- handlers
\* A session is at most MaxSteps handler calls long.
MaxSteps == 4

Step == ~aborted /\ steps < MaxSteps /\ steps' = steps + 1 /\ UNCHANGED fsvars

Alignments == {512, 1048576}

\* the sizes, in sectors, a new partition is asked with
AllocSectors == {2048}

\* "Create" in the new partition popup: the address comes from
\* disk_max_partition_size and the size is at most the size it returned
ui_new_partition ==
  /\ Step /\ HasCurrent
  /\ CurrentDisk.free_part_idx # -1
  /\ \E align \in Alignments, sectors \in AllocSectors :
       LET m == disk_max_partition_size(CurrentDisk, align)
       IN /\ Mul512(sectors) <= m.size
          /\ IF m.addr % DISK_SECTOR_SIZE = 0 /\ AllocateAsserts(CurrentDisk)
             THEN /\ disks' = [disks EXCEPT ![selected_disk] =
                       disk_allocate_partition(CurrentDisk,
                         (m.addr \div DISK_SECTOR_SIZE) % U32, sectors)]
                  /\ UNCHANGED aborted
             ELSE /\ aborted' = TRUE
                  /\ UNCHANGED disks
  /\ ret' = [op |-> "disk_allocate_partition", err |-> FALSE]
  /\ UNCHANGED <<disk_count, selected_disk, dev>>

\* Partition > Format
ui_menubar_format ==
  /\ Step /\ HasCurrent
  /\ \E partition \in 0..(MAX_PART_COUNT - 1) :
       /\ disks' = [disks EXCEPT ![selected_disk] =
                      disk_format_partition(CurrentDisk, partition)]
       /\ ret' = [op |-> "disk_format_partition",
                  err |-> FormatRefused(CurrentDisk, partition)]
  /\ UNCHANGED <<disk_count, selected_disk, dev, aborted>>

\* Partition > Delete
ui_menubar_delete_partition ==
  /\ Step /\ HasCurrent
  /\ \E partition \in 0..(MAX_PART_COUNT - 1) :
       disks' = [disks EXCEPT ![selected_disk] =
                   disk_delete_partition(CurrentDisk, partition)]
  /\ ret' = [op |-> "disk_delete_partition", err |-> FALSE]
  /\ UNCHANGED <<disk_count, selected_disk, dev, aborted>>

\* "Yes" in the apply popup; the File menu opens the popup without looking at
\* the staged changes, and disk_write_changes asserts them
ui_apply_handle ==
  /\ Step
  /\ IF HasCurrent /\ CurrentDisk.has_staged_changes
     THEN \E fail \in Failures :
            LET w == disk_write_changes(CurrentDisk, dev[CurrentDisk.path], fail)
            IN /\ disks' = [disks EXCEPT ![selected_disk] = w.disk]
               /\ dev' = [dev EXCEPT ![CurrentDisk.path] = w.d]
               /\ ret' = [op |-> "disk_write_changes", err |-> w.err]
               /\ UNCHANGED aborted
     ELSE /\ aborted' = TRUE
          /\ ret' = [op |-> "disk_write_changes", err |-> TRUE]
          /\ UNCHANGED <<disks, dev>>
  /\ UNCHANGED <<disk_count, selected_disk>>

\* "Yes" in the cancel popup
ui_cancel_handle ==
  /\ Step
  /\ IF HasCurrent
     THEN /\ disks' = [disks EXCEPT ![selected_disk] = disk_revert_changes(CurrentDisk)]
          /\ UNCHANGED aborted
     ELSE /\ aborted' = TRUE
          /\ UNCHANGED disks
  /\ ret' = [op |-> "disk_revert_changes", err |-> FALSE]
  /\ UNCHANGED <<disk_count, selected_disk, dev>>

\* File > Refresh devices
ui_menubar_refresh ==
  /\ Step
  /\ disk_count = 0 \/ HasCurrent
  /\ LET r == disks_refresh(disks, disk_count, selected_disk, dev)
     IN /\ disks' = r.disks
        /\ disk_count' = r.disk_count
        /\ selected_disk' = r.selected_disk
        /\ ret' = [op |-> "disks_refresh", err |-> r.err]
  /\ UNCHANGED <<dev, aborted>>

\* File > Open image..., and the last item of the disk combo
ui_menubar_load_image ==
  /\ Step
  /\ disk_count = 0 \/ HasCurrent
  /\ \E path \in ImagePaths :
       LET o == disk_open_image_file(disks, disk_count, dev, path)
       IN IF o.index >= 0 /\ disk_count = 0
          THEN /\ aborted' = TRUE
               /\ disks' = o.disks
               /\ disk_count' = o.disk_count
               /\ UNCHANGED selected_disk
          ELSE /\ disks' = o.disks
               /\ disk_count' = o.disk_count
               /\ selected_disk' =
                    IF o.index >= 0 /\ ~CurrentDisk.has_staged_changes
                       /\ o.disks[o.index].valid
                    THEN o.index ELSE selected_disk
               /\ UNCHANGED aborted
  /\ ret' = [op |-> "disk_open_image_file", err |-> FALSE]
  /\ UNCHANGED dev

ImageSizeIndexes == {0}

\* "Create" in the new image popup
ui_new_image ==
  /\ Step
  /\ disk_count = 0 \/ HasCurrent
  /\ \E path \in ImagePaths, index \in ImageSizeIndexes, init_mbr \in BOOLEAN :
       LET c == disk_create_image(disks, disk_count, path, s_valid_sizes(index), init_mbr)
       IN /\ disks' = c.disks
          /\ disk_count' = c.disk_count
          /\ dev' = IF c.written
                    THEN [dev EXCEPT ![path] = NewImageFile(s_valid_sizes(index), init_mbr)]
                    ELSE dev
          /\ IF c.index # -1 /\ disk_count = 0
             THEN aborted' = TRUE /\ UNCHANGED selected_disk
             ELSE /\ selected_disk' =
                       IF c.index # -1 /\ ~c.disks[selected_disk].has_staged_changes
                       THEN c.index ELSE selected_disk
                  /\ UNCHANGED aborted
  /\ ret' = [op |-> "disk_create_image", err |-> FALSE]

\* a click on a valid disk of the combo that is not the selected one
ui_combo_disk ==
  /\ Step
  /\ \E i \in 0..(disk_count - 1) :
       /\ disks[i].valid
       /\ selected_disk # i
       /\ selected_disk' = i
  /\ ret' = [op |-> "ui_combo_disk", err |-> FALSE]
  /\ UNCHANGED <<disks, disk_count, dev, aborted>>

Next ==
  \/ ui_new_partition
  \/ ui_menubar_format
  \/ ui_menubar_delete_partition
  \/ ui_apply_handle
  \/ ui_cancel_handle
  \/ ui_menubar_refresh
  \/ ui_menubar_load_image
  \/ ui_new_image
  \/ ui_combo_disk

Spec == Init /\ [][Next]_vars

\* ---------------------------------------------------------------- claims
Registered == {i \in 0..(MAX_DISKS - 1) : i < disk_count}

EditorOps ==
  {"disk_allocate_partition", "disk_format_partition", "disk_delete_partition",
   "disk_revert_changes"}

\* C1 (as stated): the four editor operations change neither a device nor the
\* committed view of any disk, and the bytes of a registered disk change only
\* in a step of disk_write_changes.
C1_only_apply_writes ==
  [][/\ ret'.op \in EditorOps =>
          /\ dev' = dev
          /\ disk_count' = disk_count
          /\ \A i \in Registered :
               disks'[i].mbr = disks[i].mbr /\ disks'[i].partitions = disks[i].partitions
     /\ \A i \in Registered :
          dev'[disks[i].path] # dev[disks[i].path] => ret'.op = "disk_write_changes"]_vars

\* C1 (amended): the four editor operations change neither a device nor the
\* committed view of any disk, and the bytes of a registered disk change only
\* in a step of disk_write_changes or when disk_create_image writes the image
\* file anew.
C1_editor_frame ==
  [][/\ ret'.op \in EditorOps =>
          /\ dev' = dev
          /\ disk_count' = disk_count
          /\ \A i \in Registered :
               disks'[i].mbr = disks[i].mbr /\ disks'[i].partitions = disks[i].partitions
     /\ \A i \in Registered :
          dev'[disks[i].path] # dev[disks[i].path] =>
            ret'.op \in {"disk_write_changes", "disk_create_image"}]_vars

\* C1 witness: a partition was allocated and its buffer is held in memory while
\* the device still holds no ZealFS header at its place
C1_witness ==
  /\ ret.op = "disk_allocate_partition"
  /\ HasCurrent
  /\ \E i \in 0..(MAX_PART_COUNT - 1) :
       /\ CurrentDisk.staged_partitions[i].data # NULL
       /\ ~CurrentDisk.partitions[i].active
       /\ ReadUnit(dev[CurrentDisk.path].units,
                   Mul512(CurrentDisk.staged_partitions[i].start_lba) \div UnitSize)
            = ZeroUnit

\* the units [first, first + count) of a device hold the buffer `data`
HoldsBuffer(d, first, count, data) ==
  \A u \in 0..(count - 1) : ReadUnit(d.units, first + u) = BufUnit(data, u)

NoBuffers(parts) ==
  \A i \in 0..(MAX_PART_COUNT - 1) : parts[i].data = NULL /\ parts[i].data_len = 0

\* C2: after a successful disk_write_changes the device holds the staged MBR at
\* offset 0 (on a disk with an MBR) and every staged buffer at start_lba * 512;
\* committed equals staged, the flag is clear and no slot owns a buffer.
C2_commit_writes_all ==
  [][(ret'.op = "disk_write_changes" /\ ~ret'.err) =>
       LET before == disks[selected_disk]
           after == disks'[selected_disk]
           d == dev'[before.path]
       IN /\ before.has_mbr => ReadSector0(d) = before.staged_mbr
          /\ \A i \in 0..(MAX_PART_COUNT - 1) :
               before.staged_partitions[i].data # NULL =>
                 HoldsBuffer(d, Mul512(before.staged_partitions[i].start_lba) \div UnitSize,
                             before.staged_partitions[i].data_len \div UnitSize,
                             before.staged_partitions[i].data)
          /\ after.mbr = before.staged_mbr
          /\ after.staged_mbr = before.staged_mbr
          /\ after.partitions = after.staged_partitions
          /\ ~after.has_staged_changes
          /\ NoBuffers(after.staged_partitions)
          /\ NoBuffers(after.partitions)]_vars

\* C3: a disk_write_changes that fails returns an error and leaves the whole
\* in-memory state as it was, the staged changes still pending; one that
\* returns no error has committed them.
C3_failed_commit_keeps_state ==
  [][ret'.op = "disk_write_changes" =>
       /\ ret'.err =>
            /\ disks' = disks
            /\ disk_count' = disk_count
            /\ selected_disk' = selected_disk
            /\ ~aborted' => disks'[selected_disk].has_staged_changes
       /\ ~ret'.err => ~disks'[selected_disk].has_staged_changes]_vars

\* C3 witness: a commit failed while a formatted buffer was staged
C3_witness ==
  /\ ret.op = "disk_write_changes"
  /\ ret.err
  /\ ~aborted
  /\ \E i \in 0..(MAX_PART_COUNT - 1) : CurrentDisk.staged_partitions[i].data # NULL

\* C4: after disk_revert_changes the staged MBR and partitions equal the
\* committed ones, the flag is clear, no staged slot owns a buffer and
\* free_part_idx is what a fresh scan of the restored table gives.
C4_revert_restores ==
  [][(ret'.op = "disk_revert_changes" /\ ~aborted') =>
       LET after == disks'[selected_disk]
       IN /\ after.staged_mbr = after.mbr
          /\ after.staged_partitions = after.partitions
          /\ ~after.has_staged_changes
          /\ NoBuffers(after.staged_partitions)
          /\ after.free_part_idx =
               (IF after.has_mbr THEN FirstInactive(after.partitions)
                ELSE IF after.partitions[0].active THEN -1 ELSE 0)]_vars

\* C5: while the selected disk has staged changes, the disk combo, opening an
\* image and creating an image do not change selected_disk.
C5_no_switch_with_changes ==
  [][(/\ HasCurrent
      /\ CurrentDisk.has_staged_changes
      /\ ret'.op \in {"ui_combo_disk", "disk_open_image_file", "disk_create_image"})
       => selected_disk' = selected_disk]_vars

\* C6: disks_refresh called while the selected disk has staged changes returns
\* an error and leaves the registry as it was.
C6_refresh_refused ==
  [][(/\ HasCurrent
      /\ CurrentDisk.has_staged_changes
      /\ ret'.op = "disks_refresh")
       => /\ ret'.err
          /\ disks' = disks
          /\ disk_count' = disk_count
          /\ selected_disk' = selected_disk]_vars

\* C6 witness: a refresh was refused on a disk with staged changes
C6_witness ==
  /\ ret.op = "disks_refresh"
  /\ ret.err
  /\ HasCurrent
  /\ CurrentDisk.has_staged_changes

\* the table invariant of the editor: every active partition starts at LBA 1 or
\* later, ends inside the disk, and no two active partitions overlap
TableOK(parts, size_bytes) ==
  /\ \A i \in 0..(MAX_PART_COUNT - 1) :
       parts[i].active =>
         /\ parts[i].start_lba >= 1
         /\ parts[i].start_lba + parts[i].size_sectors <= size_bytes \div DISK_SECTOR_SIZE
  /\ \A i, j \in 0..(MAX_PART_COUNT - 1) :
       (i # j /\ parts[i].active /\ parts[j].active) =>
         \/ parts[i].start_lba + parts[i].size_sectors <= parts[j].start_lba
         \/ parts[j].start_lba + parts[j].size_sectors <= parts[i].start_lba

\* C7: on a disk with an MBR whose staged and committed tables satisfy the
\* table invariant, every editor step (allocations take their address from
\* disk_max_partition_size and a size it allows) leaves both tables satisfying it.
C7_tables_stay_valid ==
  [][\A i \in Registered :
       (/\ i < disk_count'
        /\ disks'[i].path = disks[i].path
        /\ disks[i].has_mbr
        /\ TableOK(disks[i].partitions, disks[i].size_bytes)
        /\ TableOK(disks[i].staged_partitions, disks[i].size_bytes))
         => /\ TableOK(disks'[i].partitions, disks'[i].size_bytes)
            /\ TableOK(disks'[i].staged_partitions, disks'[i].size_bytes)]_vars

\* the sectors [from, from + len) are free sectors of [1, sectors)
FreeRun(parts, sectors, from, len) ==
  /\ from >= 1
  /\ from + len <= sectors
  /\ \A i \in 0..(MAX_PART_COUNT - 1) :
       (parts[i].active /\ parts[i].size_sectors > 0) =>
         \/ parts[i].start_lba + parts[i].size_sectors <= from
         \/ from + len <= parts[i].start_lba
         \/ len = 0

\* the places a longest free run can start at: LBA 1 and the ends of partitions
RunStarts(parts) ==
  {1} \cup {parts[i].start_lba + parts[i].size_sectors :
              i \in {j \in 0..(MAX_PART_COUNT - 1) : parts[j].active}}

\* the places a longest free run can end at: the disk's end and the starts of
\* partitions
RunEnds(parts, sectors) ==
  {sectors} \cup {parts[i].start_lba :
                    i \in {j \in 0..(MAX_PART_COUNT - 1) : parts[j].active}}

\* C8: on every registered disk with an MBR, disk_largest_free_space returns a
\* start LBA of at least 1 and a length such that the range lies inside the
\* disk, holds no sector of an active staged partition, and no run of free
\* sectors of [1, size_bytes/512) is longer.
C8_largest_gap ==
  \A i \in Registered :
    disks[i].has_mbr =>
      LET parts == disks[i].staged_partitions
          sectors == disks[i].size_bytes \div DISK_SECTOR_SIZE
          free == disk_largest_free_space(disks[i])
          start == free.addr \div DISK_SECTOR_SIZE
          length == free.size \div DISK_SECTOR_SIZE
      IN /\ FreeRun(parts, sectors, start, length)
         /\ \A a \in RunStarts(parts), b \in RunEnds(parts, sectors) :
              (a < b /\ FreeRun(parts, sectors, a, b - a)) => b - a <= length

\* C9: disk_max_partition_size returns the gap's start rounded up to a multiple
\* of align, and the gap's size less the bytes skipped, so that
\* [address, address + size) lies inside the gap, for every gap and alignment.
C9_aligned_size ==
  \A i \in Registered, align \in Alignments :
    LET free == disk_largest_free_space(disks[i])
        m == disk_max_partition_size(disks[i], align)
    IN /\ m.addr % align = 0
       /\ m.addr >= free.addr
       /\ m.addr - free.addr < align
       /\ m.addr + m.size <= free.addr + free.size
       /\ (free.size >= m.addr - free.addr) => m.size = free.size - (m.addr - free.addr)

\* ---------------------------------------------------------------- the engine's calls
\* The engine on one partition: a partition of one of the sizes the editor
\* offers, formatted, holding some empty files imported by an earlier run of
\* the program; then one file is created, written in one call from offset 0,
\* flushed and read, also after the context was destroyed or the program
\* started again and the file was opened by its path.
MaxSizeIndex == 2
MaxExisting == 7
MaxFail == 5

FsFailures == 0..MaxFail

Digits == <<"1", "2", "3", "4", "5", "6", "7", "8", "9">>

ExistingName(i) == <<"e", Digits[i]>>

NewFile == <<"b", "i", "g">>

\* import_file with an empty source, for the files number i to n
RECURSIVE Populate(_, _, _, _)
Populate(ctx, p, i, n) ==
  IF i > n THEN [ctx |-> ctx, p |-> p]
  ELSE CHOOSE r \in
         UNION {{Populate(f.ctx, f.p, i + 1, n) :
                   f \in {zealfs_flush(c.ctx, c.p, c.fd, 0)}} :
                c \in {zealfs_create(<<ExistingName(i)>>, ctx, p, NULL, 0)}} : TRUE

EditorIdle ==
  /\ disks = ZeroDisks
  /\ disk_count = 0
  /\ selected_disk = 0
  /\ dev = [p \in Paths |-> AbsentFile]
  /\ ret = [op |-> "none", err |-> FALSE]
  /\ aborted = FALSE
  /\ steps = 0

InitFS ==
  \E index \in 0..MaxSizeIndex, existing \in 0..MaxExisting :
    /\ m_part_ctx = Populate(StaticCtx, FormattedPartition(s_valid_sizes(index)),
                             1, existing).p
    /\ zealfs_ctx = StaticCtx
    /\ fd = NULL
    /\ fs_ret = [op |-> "none", err |-> "none", n |-> 0, out |-> <<>>]
    /\ fs_case = [phase |-> "idle", len |-> 0, free0 |-> 0, bitmap0 |-> {}]
    /\ EditorIdle

PhaseAfter(r, phase) == IF r.err = "none" THEN phase ELSE "failed"

call_zealfs_create ==
  /\ fs_case.phase = "idle"
  /\ \E fail \in FsFailures :
       \E r \in {zealfs_create(<<NewFile>>, zealfs_ctx, m_part_ctx, fd, fail)} :
          /\ zealfs_ctx' = r.ctx
          /\ m_part_ctx' = r.p
          /\ fd' = r.fd
          /\ fs_ret' = [op |-> "zealfs_create", err |-> r.err, n |-> r.n, out |-> <<>>]
          /\ fs_case' = [phase |-> PhaseAfter(r, "created"), len |-> 0,
                         free0 |-> zealfs_free_space(zealfs_ctx, m_part_ctx),
                         bitmap0 |-> check_header(zealfs_ctx, m_part_ctx)
                                       .header.pages_bitmap]
  /\ UNCHANGED edvars

\* the lengths tried: none, one byte, one page, one page and a byte, half of
\* the free space, all of the free space
WriteLens(page_size, free) == {0, 1, page_size, page_size + 1, free \div 2, free}

call_zealfs_write ==
  /\ fs_case.phase = "created"
  /\ \E len \in WriteLens(get_page_size(zealfs_ctx.header),
                          zealfs_free_space(zealfs_ctx, m_part_ctx)),
        fail \in FsFailures :
       \E r \in {zealfs_write(zealfs_ctx, m_part_ctx, fd, 0, len, 0, fail)} :
          /\ len <= zealfs_free_space(zealfs_ctx, m_part_ctx)
          /\ zealfs_ctx' = r.ctx
          /\ m_part_ctx' = r.p
          /\ fd' = r.fd
          /\ fs_ret' = [op |-> "zealfs_write", err |-> r.err, n |-> r.n, out |-> <<>>]
          /\ fs_case' = [fs_case EXCEPT !.phase = PhaseAfter(r, "written"), !.len = len]
  /\ UNCHANGED edvars

call_zealfs_flush ==
  /\ fs_case.phase \in {"written", "unlinked"}
  /\ \E fail \in FsFailures :
       \E r \in {zealfs_flush(zealfs_ctx, m_part_ctx, fd, fail)} :
          /\ zealfs_ctx' = r.ctx
          /\ m_part_ctx' = r.p
          /\ fs_ret' = [op |-> "zealfs_flush", err |-> r.err, n |-> r.n, out |-> <<>>]
          /\ fs_case' = [fs_case EXCEPT !.phase =
                           IF fs_case.phase = "written" THEN PhaseAfter(r, "flushed")
                           ELSE PhaseAfter(r, "reflushed")]
  /\ UNCHANGED <<fd, edvars>>

\* delete_entry on the file; the handle of import_file keeps what it held
call_zealfs_unlink ==
  /\ fs_case.phase = "flushed"
  /\ \E fail \in FsFailures :
       \E r \in {zealfs_unlink(<<NewFile>>, zealfs_ctx, m_part_ctx, fail)} :
          /\ zealfs_ctx' = r.ctx
          /\ m_part_ctx' = r.p
          /\ fs_ret' = [op |-> "zealfs_unlink", err |-> r.err, n |-> r.n, out |-> <<>>]
          /\ fs_case' = [fs_case EXCEPT !.phase = PhaseAfter(r, "unlinked")]
  /\ UNCHANGED <<fd, edvars>>

call_zealfs_read ==
  /\ fs_case.phase \in {"flushed", "opened"}
  /\ \E r \in {zealfs_read(zealfs_ctx, m_part_ctx, fd, fs_case.len, 0)} :
        /\ zealfs_ctx' = r.ctx
        /\ fs_ret' = [op |-> "zealfs_read", err |-> r.err, n |-> r.n, out |-> r.out]
        /\ fs_case' = [fs_case EXCEPT !.phase =
                         IF fs_case.phase = "flushed" THEN PhaseAfter(r, "read")
                         ELSE PhaseAfter(r, "reread")]
  /\ UNCHANGED <<m_part_ctx, fd, edvars>>

\* partition_viewer_parse: the partition is opened again in the same run
call_zealfs_destroy ==
  /\ fs_case.phase \in {"flushed", "read", "reread"}
  /\ zealfs_ctx' = zealfs_destroy(zealfs_ctx)
  /\ fd' = NULL
  /\ fs_ret' = [op |-> "zealfs_destroy", err |-> "none", n |-> 0, out |-> <<>>]
  /\ fs_case' = [fs_case EXCEPT !.phase = "unmounted"]
  /\ UNCHANGED <<m_part_ctx, edvars>>

\* the program ends and is started again: zealfs_ctx is the static object
program_restart ==
  /\ fs_case.phase \in {"flushed", "read", "reread"}
  /\ zealfs_ctx' = StaticCtx
  /\ fd' = NULL
  /\ fs_ret' = [op |-> "main", err |-> "none", n |-> 0, out |-> <<>>]
  /\ fs_case' = [fs_case EXCEPT !.phase = "unmounted"]
  /\ UNCHANGED <<m_part_ctx, edvars>>

call_zealfs_open ==
  /\ fs_case.phase = "unmounted"
  /\ \E r \in {zealfs_open(<<NewFile>>, zealfs_ctx, m_part_ctx, fd)} :
        /\ zealfs_ctx' = r.ctx
        /\ fd' = r.fd
        /\ fs_ret' = [op |-> "zealfs_open", err |-> r.err, n |-> r.n, out |-> <<>>]
        /\ fs_case' = [fs_case EXCEPT !.phase = PhaseAfter(r, "opened")]
  /\ UNCHANGED <<m_part_ctx, edvars>>

NextFS ==
  \/ call_zealfs_create
  \/ call_zealfs_write
  \/ call_zealfs_flush
  \/ call_zealfs_unlink
  \/ call_zealfs_read
  \/ call_zealfs_destroy
  \/ program_restart
  \/ call_zealfs_open

SpecFS == InitFS /\ [][NextFS]_vars

\* ---------------------------------------------------------------- C10
\* len rounded up to a whole number of pages
RoundUpToPages(len, page_size) == ((len + page_size - 1) \div page_size) * page_size

\* the caller's buffer of len bytes, as the read fills it when out = buf
WholeBuffer(len) == IF len = 0 THEN <<>> ELSE <<[src |-> 0, n |-> len]>>

\* C10: for a newly created file and any len <= free_space(), after
\* write(h, buf, len, 0) and flush, read(h, out, len, 0) returns len with
\* out = buf, on the same handle and also after the context was destroyed or
\* the program started again and the file was opened by its path, for every
\* partition size; and the free space is then smaller than before the file
\* was created by len rounded up to a whole number of pages.
C10_write_flush_read ==
  fs_case.phase \in {"read", "reread"} =>
    /\ fs_ret.err = "none"
    /\ fs_ret.n = fs_case.len
    /\ fs_ret.out = WholeBuffer(fs_case.len)
    /\ SubU32(fs_case.free0, zealfs_free_space(zealfs_ctx, m_part_ctx))
         = RoundUpToPages(fs_case.len, get_page_size(zealfs_ctx.header))

\* ---------------------------------------------------------------- the directory calls
\* The engine under the calls of the viewer's handlers (create_directory,
\* delete_entry, read_directory, extract_selected_file, import_file): a
\* partition left by an earlier run of the program in one of the layouts of
\* Layouts, then at most MaxCalls calls with paths of CallPaths.
MaxDirSizeIndex == 1
MaxCalls == 2

DirName == <<"d">>

LongName == [i \in 1..(NAME_MAX_LEN + 1) |-> "x"]

DataLen == 300

\* one call of an earlier run: cmd.k names it
Exec(s, cmd) ==
  CASE cmd.k = "mkdir" ->
         CHOOSE r \in {[ctx |-> m.ctx, p |-> m.p] :
                         m \in {zealfs_mkdir(cmd.path, s.ctx, s.p, NULL, 0)}} : TRUE
    [] cmd.k = "create_fails" ->
         CHOOSE r \in {[ctx |-> c.ctx, p |-> c.p] :
                         c \in {zealfs_create(cmd.path, s.ctx, s.p, NULL, 1)}} : TRUE
    [] cmd.k = "unlink" ->
         CHOOSE r \in {[ctx |-> u.ctx, p |-> u.p] :
                         u \in {zealfs_unlink(cmd.path, s.ctx, s.p, 0)}} : TRUE
    [] cmd.k = "unlink_fails" ->
         CHOOSE r \in {[ctx |-> u.ctx, p |-> u.p] :
                         u \in {zealfs_unlink(cmd.path, s.ctx, s.p, 1)}} : TRUE
    [] cmd.k = "import" ->
         CHOOSE r \in
           UNION {UNION {{[ctx |-> f.ctx, p |-> f.p] :
                            f \in {zealfs_flush(w.ctx, w.p, w.fd, 0)}} :
                         w \in {zealfs_write(c.ctx, c.p, c.fd, 0, cmd.len, 0, 0)}} :
                  c \in {zealfs_create(cmd.path, s.ctx, s.p, NULL, 0)}} : TRUE

\* the calls number i and later of cmds, made in the state s
RECURSIVE Run(_, _, _)
Run(s, cmds, i) ==
  IF i > Len(cmds) THEN s
  ELSE CHOOSE r \in {Run(t, cmds, i + 1) : t \in {Exec(s, cmds[i])}} : TRUE

\* import_file for the files number 1 to n of the directory dir, each of len bytes
Imports(dir, n, len) ==
  [i \in 1..n |-> [k |-> "import", path |-> dir \o <<ExistingName(i)>>, len |-> len]]

Unlinks(dir, n) == [i \in 1..n |-> [k |-> "unlink", path |-> dir \o <<ExistingName(i)>>]]

Mkdir(path) == <<[k |-> "mkdir", path |-> path]>>

\* import_file for the files number 1 to n of the root directory, each of
\* which fails in the first write of zealfs_create
FailedImports(n) == [i \in 1..n |-> [k |-> "create_fails", path |-> <<ExistingName(i)>>]]

\* the layouts: root_max and dir_max are the entries of the root page and of
\* a directory page
Layouts(root_max, dir_max) ==
  [empty |-> <<>>,
   file_with_data |-> Imports(<<>>, 1, DataLen),
   creates_failed |-> FailedImports(2),
   unlink_failed |-> Imports(<<>>, 1, DataLen)
                       \o <<[k |-> "unlink_fails", path |-> <<ExistingName(1)>>]>>,
   root_full |-> Imports(<<>>, root_max, 0),
   root_two_pages |-> Imports(<<>>, root_max + 1, 0),
   dir_empty |-> Mkdir(<<DirName>>),
   dir_full |-> Mkdir(<<DirName>>) \o Imports(<<DirName>>, dir_max, 0),
   dir_two_pages |-> Mkdir(<<DirName>>) \o Imports(<<DirName>>, dir_max + 1, 0),
   dir_first_page_empty |->
     Mkdir(<<DirName>>) \o Imports(<<DirName>>, dir_max + 1, 0)
       \o Unlinks(<<DirName>>, dir_max)]

LayoutNames == DOMAIN Layouts(0, 0)

\* the context and the partition of the size number index after the calls
\* of the layout named layout
Laid(index, layout) ==
  CHOOSE r \in
    UNION {{Run([ctx |-> StaticCtx, p |-> p], cmds, 1) :
              cmds \in {Layouts(get_root_dir_max_entries(p.header),
                                get_dir_max_entries(p.header))[layout]}} :
           p \in {FormattedPartition(s_valid_sizes(index))}} : TRUE

NoCall == [op |-> "none", err |-> "none", n |-> 0, out |-> <<>>,
           path |-> <<>>, arg |-> 0, fail |-> 0]

\* the calls of the layout were made by this run of the program (same) or by
\* an earlier one
InitDir ==
  \E index \in 0..MaxDirSizeIndex, layout \in LayoutNames, same \in BOOLEAN :
    \E laid \in {Laid(index, layout)} :
      /\ m_part_ctx = laid.p
      /\ zealfs_ctx = IF same THEN laid.ctx ELSE StaticCtx
      /\ fd = NULL
      /\ fs_ret = NoCall
      /\ fs_case = [phase |-> "idle", len |-> 0, free0 |-> 0, bitmap0 |-> {}]
      /\ EditorIdle

MAX_ENTRIES == 2048

DirFailures == 0..MaxFail

CallPaths ==
  {<<NewFile>>, <<DirName>>, <<DirName, NewFile>>, <<LongName>>,
   <<ExistingName(1)>>, <<DirName, ExistingName(9)>>}

\* one more call was made; the editor is not involved
Called ==
  /\ steps' = steps + 1
  /\ UNCHANGED <<disks, disk_count, selected_disk, dev, ret, aborted>>

Returned(op, r, out, path, arg, fail) ==
  [op |-> op, err |-> r.err, n |-> r.n, out |-> out, path |-> path, arg |-> arg,
   fail |-> fail]

Idle == [phase |-> "idle", len |-> 0, free0 |-> 0, bitmap0 |-> {}]

do_create ==
  /\ steps < MaxCalls
  /\ \E path \in CallPaths, fail \in DirFailures :
       \E r \in {zealfs_create(path, zealfs_ctx, m_part_ctx, fd, fail)} :
          /\ zealfs_ctx' = r.ctx
          /\ m_part_ctx' = r.p
          /\ fd' = r.fd
          /\ fs_ret' = Returned("zealfs_create", r, <<>>, path, 0, fail)
          /\ fs_case' = [Idle EXCEPT !.phase = IF r.err = "none" THEN "created" ELSE "idle"]
  /\ Called

\* create_directory passes no handle
do_mkdir ==
  /\ steps < MaxCalls
  /\ \E path \in CallPaths, fail \in DirFailures :
       \E r \in {zealfs_mkdir(path, zealfs_ctx, m_part_ctx, NULL, fail)} :
          /\ zealfs_ctx' = r.ctx
          /\ m_part_ctx' = r.p
          /\ fs_ret' = Returned("zealfs_mkdir", r, <<>>, path, 1, fail)
  /\ fd' = NULL
  /\ fs_case' = Idle
  /\ Called

\* delete_entry: the handles of the earlier handlers are gone
do_unlink ==
  /\ steps < MaxCalls
  /\ \E path \in CallPaths, fail \in DirFailures :
       \E r \in {zealfs_unlink(path, zealfs_ctx, m_part_ctx, fail)} :
          /\ zealfs_ctx' = r.ctx
          /\ m_part_ctx' = r.p
          /\ fs_ret' = Returned("zealfs_unlink", r, <<>>, path, 0, fail)
  /\ fd' = NULL
  /\ fs_case' = Idle
  /\ Called

do_rmdir ==
  /\ steps < MaxCalls
  /\ \E path \in CallPaths \cup {<<>>}, fail \in DirFailures :
       \E r \in {zealfs_rmdir(path, zealfs_ctx, m_part_ctx, fail)} :
          /\ zealfs_ctx' = r.ctx
          /\ m_part_ctx' = r.p
          /\ fs_ret' = Returned("zealfs_rmdir", r, <<>>, path, 0, fail)
  /\ fd' = NULL
  /\ fs_case' = Idle
  /\ Called

do_open ==
  /\ steps < MaxCalls
  /\ \E path \in CallPaths \cup {<<>>} :
       \E r \in {zealfs_open(path, zealfs_ctx, m_part_ctx, NULL)} :
          /\ zealfs_ctx' = r.ctx
          /\ fd' = r.fd
          /\ fs_ret' = Returned("zealfs_open", r, <<>>, path, 0, 0)
          /\ fs_case' = [Idle EXCEPT !.phase = IF r.err = "none" THEN "opened" ELSE "idle"]
  /\ UNCHANGED m_part_ctx
  /\ Called

do_opendir ==
  /\ steps < MaxCalls
  /\ \E path \in CallPaths \cup {<<>>} :
       \E r \in {zealfs_opendir(path, zealfs_ctx, m_part_ctx, NULL)} :
          /\ zealfs_ctx' = r.ctx
          /\ fd' = r.fd
          /\ fs_ret' = Returned("zealfs_opendir", r, <<>>, path, 0, 0)
          /\ fs_case' = [Idle EXCEPT !.phase = IF r.err = "none" THEN "dir" ELSE "idle"]
  /\ UNCHANGED m_part_ctx
  /\ Called

\* fs_ret.path is the path the directory was opened with
do_readdir ==
  /\ steps < MaxCalls
  /\ fs_case.phase = "dir"
  /\ \E count \in {1, MAX_ENTRIES} :
       \E r \in {zealfs_readdir(zealfs_ctx, m_part_ctx, fd, count)} :
          /\ zealfs_ctx' = r.ctx
          /\ fs_ret' = Returned("zealfs_readdir", r, r.out, fs_ret.path, count, 0)
  /\ UNCHANGED <<m_part_ctx, fd, fs_case>>
  /\ Called

\* the lengths tried at offset 0, around the free space and one page more
DirWriteLens(page_size, free) ==
  {1, DataLen, free, free + 1, free + page_size, free + page_size + 1}

do_write ==
  /\ steps < MaxCalls
  /\ fs_case.phase \in {"created", "opened"}
  /\ \E len \in DirWriteLens(get_page_size(zealfs_ctx.header),
                             zealfs_free_space(zealfs_ctx, m_part_ctx)) :
       \E r \in {zealfs_write(zealfs_ctx, m_part_ctx, fd, 0, len, 0, 0)} :
          /\ zealfs_ctx' = r.ctx
          /\ m_part_ctx' = r.p
          /\ fd' = r.fd
          /\ fs_ret' = Returned("zealfs_write", r, <<>>, fs_ret.path, len, 0)
          /\ fs_case' = [fs_case EXCEPT !.len = len,
                                        !.free0 = zealfs_free_space(zealfs_ctx, m_part_ctx)]
  /\ Called

do_flush ==
  /\ steps < MaxCalls
  /\ fs_case.phase \in {"created", "opened"}
  /\ \E fail \in DirFailures :
       \E r \in {zealfs_flush(zealfs_ctx, m_part_ctx, fd, fail)} :
          /\ zealfs_ctx' = r.ctx
          /\ m_part_ctx' = r.p
          /\ fs_ret' = Returned("zealfs_flush", r, <<>>, fs_ret.path, 0, fail)
  /\ UNCHANGED <<fd, fs_case>>
  /\ Called

\* the offsets tried: the start, inside the file, its size and one byte beyond
do_read ==
  /\ steps < MaxCalls
  /\ fs_case.phase \in {"created", "opened"}
  /\ \E size \in {1, 2 * DataLen}, offset \in {0, DataLen \div 2, fd.entry.size,
                                                fd.entry.size + 1} :
       \E r \in {zealfs_read(zealfs_ctx, m_part_ctx, fd, size, offset)} :
          /\ zealfs_ctx' = r.ctx
          /\ fs_ret' = Returned("zealfs_read", r, r.out, fs_ret.path, offset, 0)
          /\ fs_case' = [fs_case EXCEPT !.len = size]
  /\ UNCHANGED <<m_part_ctx, fd>>
  /\ Called

NextDir ==
  \/ do_create
  \/ do_mkdir
  \/ do_unlink
  \/ do_rmdir
  \/ do_open
  \/ do_opendir
  \/ do_readdir
  \/ do_write
  \/ do_flush
  \/ do_read

SpecDir == InitDir /\ [][NextDir]_vars

\* ---------------------------------------------------------------- C11
\* the pages of the chain that starts at page, in the order of the FAT links
RECURSIVE Chain(_, _, _)
Chain(ctx, page, turns) ==
  IF turns = 0 THEN <<>>
  ELSE IF get_next_from_fat(ctx, page) = 0 THEN <<page>>
  ELSE <<page>> \o Chain(ctx, get_next_from_fat(ctx, page), turns - 1)

ChainOf(ctx, page) == Chain(ctx, page, ctx.header.bitmap_size * 8)

\* the addresses of the entries of one page of a directory, in their order
SlotsOf(header, page) ==
  IF page = 0
  THEN [i \in 1..get_root_dir_max_entries(header) |->
          get_root_dir_addr(header) + (i - 1) * EntrySize]
  ELSE [i \in 1..get_dir_max_entries(header) |->
          ADDR_FROM_PAGE(header, page) + (i - 1) * EntrySize]

\* the addresses of the entries of the pages number i and later of chain
RECURSIVE SlotsAlong(_, _, _)
SlotsAlong(header, chain, i) ==
  IF i > Len(chain) THEN <<>>
  ELSE SlotsOf(header, chain[i]) \o SlotsAlong(header, chain, i + 1)

\* the occupied entries of the directory that starts at page, in on-disk order
EntriesOfDir(ctx, p, page) ==
  LET slots == SlotsAlong(ctx.header, ChainOf(ctx, page), 1)
  IN SelectSeq([i \in 1..Len(slots) |-> EntryAt(p, slots[i])], IsOccupied)

Resolve(ctx, p, path) == browse_path(ctx, p, path, get_root_dir_addr(ctx.header), TRUE)

ParentOf(path) == SubSeq(path, 1, Len(path) - 1)

\* the path names a directory: "/" or an occupied entry with IS_DIR
IsDirectory(ctx, p, path) ==
  \/ path = <<>>
  \/ /\ Resolve(ctx, p, path).res = 1
     /\ Resolve(ctx, p, path).out.entry.flags % 2 = IS_DIR

\* the first page of the directory path
StartOf(ctx, p, path) ==
  IF path = <<>> THEN 0 ELSE Resolve(ctx, p, path).out.entry.start_page

\* the page holds zero bytes only, but for the entries at the addresses but
ZeroedBut(p, page, but) ==
  /\ page \in DOMAIN p.pages
  /\ p.pages[page].n = 0
  /\ \A a \in DOMAIN p.entries \ but :
       a \div get_page_size(p.header) = page => p.entries[a] = ZeroFsEntry

\* what a successful create of path did, from (ctx, p) to (ctx2, p2)
CreatedIn(ctx, p, ctx2, p2, path, isdir) ==
  LET start == StartOf(ctx, p, ParentOf(path))
      before == EntriesOfDir(ctx, p, start)
      after == EntriesOfDir(ctx2, p2, start)
      chain == ChainOf(ctx, start)
      chain2 == ChainOf(ctx2, start)
      slots == SlotsAlong(ctx.header, chain, 1)
      full == \A i \in 1..Len(slots) : IsOccupied(EntryAt(p, slots[i]))
      found == Resolve(ctx2, p2, path)
      entry == found.out.entry
      taken == ctx2.header.pages_bitmap \ ctx.header.pages_bitmap
  IN /\ found.res = 1
     /\ Len(after) = Len(before) + 1
     /\ \E k \in 1..Len(after) :
          /\ after[k] = entry
          /\ before = SubSeq(after, 1, k - 1) \o SubSeq(after, k + 1, Len(after))
     /\ entry.flags = IS_OCCUPIED + isdir
     /\ entry.name = path[Len(path)]
     /\ entry.size = IF isdir = 1 THEN get_page_size(ctx.header) ELSE 0
     /\ entry.start_page \in taken
     /\ get_next_from_fat(ctx2, entry.start_page) = 0
     /\ ZeroedBut(p2, entry.start_page, {})
     /\ ctx.header.pages_bitmap \subseteq ctx2.header.pages_bitmap
     /\ IF full
        THEN /\ Len(chain2) = Len(chain) + 1
             /\ SubSeq(chain2, 1, Len(chain)) = chain
             /\ taken = {entry.start_page, chain2[Len(chain2)]}
             /\ chain2[Len(chain2)] # entry.start_page
             /\ found.out.entry_addr = ADDR_FROM_PAGE(ctx.header, chain2[Len(chain2)])
             /\ ZeroedBut(p2, chain2[Len(chain2)], {found.out.entry_addr})
             /\ ctx2.header.free_pages = (ctx.header.free_pages + U16 - 2) % U16
        ELSE /\ chain2 = chain
             /\ taken = {entry.start_page}
             /\ ctx2.header.free_pages = (ctx.header.free_pages + U16 - 1) % U16
     /\ \A k \in 1..Len(after) :
          /\ Resolve(ctx2, p2, ParentOf(path) \o <<after[k].name>>).res = 1
          /\ Resolve(ctx2, p2, ParentOf(path) \o <<after[k].name>>).out.entry = after[k]

CreateStep == fs_ret'.op \in {"zealfs_create", "zealfs_mkdir"}

\* C11: create(path) or mkdir(path) on a path that already resolves returns
\* EEXIST and changes neither the cached header and FAT nor the partition;
\* otherwise, when the parent directory exists and the call succeeds, the
\* parent directory holds exactly one occupied entry more, with the given
\* name, size 0 (mkdir: IS_DIR and the page size), whose start page is one
\* newly taken zeroed page with FAT link 0; the directory was extended by one
\* zeroed page linked at the end of its chain exactly when none of its
\* entries was free; and the new entry and all earlier entries of the
\* directory are found by path resolution afterwards.
C11_create_adds_one_entry ==
  [][CreateStep =>
       LET ctx == check_header(zealfs_ctx, m_part_ctx)
           path == fs_ret'.path
       IN IF Resolve(ctx, m_part_ctx, path).res = 1
          THEN /\ fs_ret'.err = "EEXIST"
               /\ zealfs_ctx' = ctx
               /\ m_part_ctx' = m_part_ctx
          ELSE (IsDirectory(ctx, m_part_ctx, ParentOf(path)) /\ fs_ret'.err = "none")
                 => CreatedIn(ctx, m_part_ctx, zealfs_ctx', m_part_ctx', path,
                              fs_ret'.arg)]_vars

\* ---------------------------------------------------------------- C12
\* the first count elements of the sequence all
FirstOf(all, count) == IF Len(all) <= count THEN all ELSE SubSeq(all, 1, count)

\* C12: zealfs_readdir on an opened directory returns the occupied entries of
\* all pages of its FAT chain, each once and in on-disk order, and nothing
\* else: all of them when max is large enough, the first max of them otherwise.
C12_readdir_lists_directory ==
  fs_ret.op = "zealfs_readdir" =>
    /\ fs_ret.err = "none"
    /\ fs_ret.out =
         FirstOf(EntriesOfDir(zealfs_ctx, m_part_ctx,
                              fd.entry_addr \div get_page_size(zealfs_ctx.header)),
                 fs_ret.arg)
    /\ fs_ret.n = Len(fs_ret.out)

\* ---------------------------------------------------------------- C13
\* every occupied entry of the directory path in (ctx, p) is found in (ctx2, p2)
StillFound(ctx, p, ctx2, p2, path) ==
  LET all == EntriesOfDir(ctx, p, StartOf(ctx, p, path))
  IN \A k \in 1..Len(all) :
       /\ Resolve(ctx2, p2, path \o <<all[k].name>>).res = 1
       /\ Resolve(ctx2, p2, path \o <<all[k].name>>).out.entry = all[k]

\* C13: zealfs_rmdir on a directory with an occupied entry in any page of
\* its FAT chain returns ENOTEMPTY and frees nothing: the cached bitmap,
\* free_pages and FAT and the partition are as before the call and every
\* entry of the directory is still found; pages are freed, links cleared and
\* the parent entry zeroed only when no page of the chain holds an occupied
\* entry.
C13_rmdir_not_empty ==
  [][fs_ret'.op = "zealfs_rmdir" =>
       LET ctx == check_header(zealfs_ctx, m_part_ctx)
           path == fs_ret'.path
       IN (/\ path # <<>>
           /\ IsDirectory(ctx, m_part_ctx, path)
           /\ EntriesOfDir(ctx, m_part_ctx, StartOf(ctx, m_part_ctx, path)) # <<>>)
          => /\ fs_ret'.err = "ENOTEMPTY"
             /\ zealfs_ctx' = ctx
             /\ m_part_ctx' = m_part_ctx
             /\ StillFound(ctx, m_part_ctx, zealfs_ctx', m_part_ctx', path)]_vars

\* ---------------------------------------------------------------- C14
\* C14: create(p); flush; unlink(p); flush leaves the free-page count and the
\* bitmap, in the cache and on the partition, as they were before the create,
\* for every directory state in which the create succeeds, a parent directory
\* without free entry included; after the unlink the pages of the file's
\* chain are free, the link of its start page is 0 and its directory entry
\* is zeroed.
C14_create_unlink_restores ==
  /\ fs_case.phase \in {"unlinked", "reflushed"} =>
       /\ zealfs_free_space(zealfs_ctx, m_part_ctx) = fs_case.free0
       /\ zealfs_ctx.header.pages_bitmap = fs_case.bitmap0
       /\ m_part_ctx.header.pages_bitmap = fs_case.bitmap0
       /\ m_part_ctx.header.free_pages = zealfs_ctx.header.free_pages
  /\ fs_case.phase = "unlinked" =>
       /\ EntryAt(m_part_ctx, fd.entry_addr) = ZeroFsEntry
       /\ fd.entry.start_page \notin zealfs_ctx.header.pages_bitmap
       /\ get_next_from_fat(zealfs_ctx, fd.entry.start_page) = 0

\* ---------------------------------------------------------------- C15
\* the path names an occupied entry that is not a directory
IsFile(ctx, p, path) ==
  /\ path # <<>>
  /\ Resolve(ctx, p, path).res = 1
  /\ IsOccupied(Resolve(ctx, p, path).out.entry)
  /\ Resolve(ctx, p, path).out.entry.flags % 2 = 0

\* C15: zealfs_open succeeds only for a path that resolves to an occupied
\* entry that is not a directory, and the handle then holds that entry and
\* its address; for every other path it returns an error: EISDIR for a
\* directory or "/", ENOENT for a missing entry, an error when the resolution
\* fails on a name of more than 16 bytes; no handle with entry address 0 or
\* start page 0 is handed out.
C15_open_only_files ==
  fs_ret.op = "zealfs_open" =>
    LET path == fs_ret.path
    IN IF IsFile(zealfs_ctx, m_part_ctx, path)
       THEN /\ fs_ret.err = "none"
            /\ fd.entry = Resolve(zealfs_ctx, m_part_ctx, path).out.entry
            /\ fd.entry_addr = Resolve(zealfs_ctx, m_part_ctx, path).out.entry_addr
            /\ fd.entry_addr # 0
            /\ fd.entry.start_page # 0
       ELSE /\ fs_ret.err # "none"
            /\ IsDirectory(zealfs_ctx, m_part_ctx, path) => fs_ret.err = "EISDIR"
            /\ (path # <<>> /\ Resolve(zealfs_ctx, m_part_ctx, path).res = 0)
                 => fs_ret.err = "ENOENT"
            /\ fd = NULL

\* ---------------------------------------------------------------- C16
\* the write was made at offset 0 on the handle zealfs_create returned
FreshWrite == fs_ret.op = "zealfs_write" /\ fs_case.phase = "created"

\* C16: for a freshly created file, zealfs_write of exactly free_space()
\* bytes at offset 0 succeeds, and a write of free_space() + 1 bytes at
\* offset 0 returns ENOSPC.
C16_write_up_to_free_space ==
  FreshWrite =>
    /\ fs_case.len = fs_case.free0 => (fs_ret.err = "none" /\ fs_ret.n = fs_case.len)
    /\ fs_case.len = fs_case.free0 + 1 => fs_ret.err = "ENOSPC"

\* ---------------------------------------------------------------- C17
\* n bytes of a file written in one call from its start, from offset on
BytesFrom(offset, n) == IF n = 0 THEN <<>> ELSE <<[src |-> offset, n |-> n]>>

\* C17: zealfs_read clamps to the size of the file: for every offset that is
\* the size of the entry or beyond it, it returns 0 bytes and fails no
\* assertion; for an offset below the size it returns min(size, entry.size -
\* offset) bytes, which are the bytes of the file's own chain from that
\* offset on.
C17_read_clamps ==
  fs_ret.op = "zealfs_read" =>
    LET offset == fs_ret.arg
        size == fs_case.len
        left == fd.entry.size - offset
    IN /\ fs_ret.err = "none"
       /\ fs_ret.n = IF offset >= fd.entry.size THEN 0
                     ELSE IF size < left THEN size ELSE left
       /\ fs_ret.out = BytesFrom(offset, fs_ret.n)

\* ---------------------------------------------------------------- C18
\* C18: create or mkdir with a final name of more than 16 bytes returns
\* ENAMETOOLONG and changes neither the cached header and FAT nor the
\* partition.
C18_long_name_refused ==
  [][(CreateStep /\ Len(fs_ret'.path[Len(fs_ret'.path)]) > NAME_MAX_LEN) =>
       /\ fs_ret'.err = "ENAMETOOLONG"
       /\ zealfs_ctx' = check_header(zealfs_ctx, m_part_ctx)
       /\ m_part_ctx' = m_part_ctx]_vars

\* ---------------------------------------------------------------- C19
MaxNesting == 3

\* one more page of a chain was followed; w holds the page and those seen
WalkTurn(ctx, w) ==
  [page |-> get_next_from_fat(ctx, w.page), seen |-> w.seen \cup {w.page}]

\* at most turns links are followed, up to the end of the chain or a page seen
RECURSIVE Walk(_, _, _)
Walk(ctx, w, turns) ==
  IF w.page = 0 \/ w.page \in w.seen \/ turns = 0 THEN w
  ELSE IF turns = 1 THEN WalkTurn(ctx, w)
  ELSE CHOOSE end \in {Walk(ctx, half, turns - (turns \div 2)) :
                        half \in {Walk(ctx, w, turns \div 2)}} : TRUE

\* the pages reachable by FAT links from the page start
PagesFrom(ctx, start) ==
  Walk(ctx, [page |-> get_next_from_fat(ctx, start), seen |-> {start}],
       ctx.header.bitmap_size * 8).seen

\* the pages reachable from the directory that starts at the page start:
\* its own chain and, for its occupied entries, their chains and directories
RECURSIVE Reachable(_, _, _, _)
Reachable(ctx, p, start, depth) ==
  LET pages == PagesFrom(ctx, start)
      slots == UNION {{SlotsOf(ctx.header, q)[i] : i \in DOMAIN SlotsOf(ctx.header, q)} :
                      q \in pages}
      occupied == {EntryAt(p, a) : a \in {b \in slots : IsOccupied(EntryAt(p, b))}}
  IN pages \cup
     UNION {IF e.flags % 2 = IS_DIR /\ depth > 0
            THEN Reachable(ctx, p, e.start_page, depth - 1)
            ELSE PagesFrom(ctx, e.start_page) : e \in occupied}

\* the pages of the header and of the FAT
Reserved(ctx) == 0..(ctx.fat_size \div get_page_size(ctx.header))

Mounted == zealfs_ctx.header.magic # 0

\* C19: after any sequence of create, mkdir, write, flush, unlink and rmdir
\* calls, calls that return an error included, the cached bitmap has the bit
\* of page k set exactly when k is a page of the header or of the FAT or k is
\* reachable by FAT links from the root directory page or from the start page
\* of an occupied entry of a reachable directory.
C19_bitmap_is_reachability ==
  Mounted =>
    zealfs_ctx.header.pages_bitmap
      = Reserved(zealfs_ctx) \cup Reachable(zealfs_ctx, m_part_ctx, 0, MaxNesting)

\* ---------------------------------------------------------------- C20
\* C20: after any sequence of create, mkdir, write, flush, unlink and rmdir
\* calls, calls that return ENOSPC or a write error included, the cached
\* header satisfies popcount(bitmap) + free_pages = bitmap_size * 8.
C20_free_pages_counts_clear_bits ==
  Mounted =>
    Cardinality(zealfs_ctx.header.pages_bitmap) + zealfs_ctx.header.free_pages
      = zealfs_ctx.header.bitmap_size * 8

\* ---------------------------------------------------------------- C21
\* the start pages of the chains of the directory that starts at the page
\* start: its own and, for its occupied entries, theirs and those below them
RECURSIVE StartPages(_, _, _, _)
StartPages(ctx, p, start, depth) ==
  LET pages == PagesFrom(ctx, start)
      slots == UNION {{SlotsOf(ctx.header, q)[i] : i \in DOMAIN SlotsOf(ctx.header, q)} :
                      q \in pages}
      occupied == {EntryAt(p, a) : a \in {b \in slots : IsOccupied(EntryAt(p, b))}}
  IN {start} \cup
     UNION {IF e.flags % 2 = IS_DIR /\ depth > 0
            THEN StartPages(ctx, p, e.start_page, depth - 1)
            ELSE {e.start_page} : e \in occupied}

\* following the FAT from the page start reaches 0 in at most total_pages steps
EndsAtZero(ctx, start) ==
  Walk(ctx, [page |-> get_next_from_fat(ctx, start), seen |-> {start}],
       ctx.header.bitmap_size * 8).page = 0

\* C21: after any sequence of create, mkdir, write, flush, unlink and rmdir
\* calls, following the cached FAT from the root directory page and from the
\* start page of every occupied file or directory entry reaches 0 in at most
\* total_pages steps: no chain contains a cycle.
C21_fat_chains_acyclic ==
  Mounted =>
    \A start \in StartPages(zealfs_ctx, m_part_ctx, 0, MaxNesting) :
      EndsAtZero(zealfs_ctx, start)

\* ---------------------------------------------------------------- C22
\* the header and the FAT as a new session reads them from the partition
OnDisk == check_header(StaticCtx, m_part_ctx)

\* C22: if execution stops between two device writes of create, write,
\* flush or unlink (the write number fail and the later ones are not made),
\* then on the partition no occupied directory entry and no FAT chain
\* references a page whose bit is 0 in the bitmap on the partition.
C22_disk_references_allocated_pages ==
  Reachable(OnDisk, m_part_ctx, 0, MaxNesting) \subseteq OnDisk.header.pages_bitmap

\* ---------------------------------------------------------------- C23
\* this step is a call of the operation op
CallOf(op) == steps' = steps + 1 /\ fs_ret'.op = op

\* what this step wrote to the partition, seen from the partition
HeaderChanged == m_part_ctx'.header # m_part_ctx.header
FatChanged == m_part_ctx'.fat # m_part_ctx.fat

\* the header on the partition is the one this step had in its cache
HeaderWritten == m_part_ctx'.header.pages_bitmap = zealfs_ctx'.header.pages_bitmap

\* the addresses at which this step left a new occupied entry on the partition
NewEntries ==
  {a \in DOMAIN m_part_ctx'.entries :
     IsOccupied(m_part_ctx'.entries[a]) /\ EntryAt(m_part_ctx, a) # m_part_ctx'.entries[a]}

\* create and mkdir: zeroed pages, entry, header, FAT
CreateOrder ==
  /\ HeaderChanged \/ FatChanged => NewEntries # {}
  /\ FatChanged => HeaderWritten
  /\ \A a \in NewEntries :
       ZeroedBut(m_part_ctx', m_part_ctx'.entries[a].start_page, {a})

\* flush: entry, header, FAT
FlushOrder ==
  /\ HeaderChanged \/ FatChanged => EntryAt(m_part_ctx', fd.entry_addr) = fd.entry
  /\ FatChanged => m_part_ctx'.header = zealfs_ctx'.header

\* unlink and rmdir: zeroed entry, header, FAT
RemoveOrder ==
  /\ HeaderChanged \/ FatChanged
       => EntryAt(m_part_ctx',
                  Resolve(check_header(zealfs_ctx, m_part_ctx), m_part_ctx,
                          fs_ret'.path).out.entry_addr) = ZeroFsEntry
  /\ FatChanged => m_part_ctx'.header = zealfs_ctx'.header

\* write: data pages only
WriteOrder ==
  /\ m_part_ctx'.header = m_part_ctx.header
  /\ m_part_ctx'.fat = m_part_ctx.fat
  /\ m_part_ctx'.entries = m_part_ctx.entries

\* C23: every mutating operation makes its device writes in the order data
\* (or zeroed) pages, directory entry, header with the bitmap, FAT: whenever
\* a call stops at any of its writes, the partition holds a later write of
\* that order only together with all the earlier ones.
C23_write_order ==
  [][/\ CallOf("zealfs_create") \/ CallOf("zealfs_mkdir") => CreateOrder
     /\ CallOf("zealfs_flush") => FlushOrder
     /\ CallOf("zealfs_unlink") \/ CallOf("zealfs_rmdir") => RemoveOrder
     /\ CallOf("zealfs_write") => WriteOrder]_vars

\* a create stopped at the write of the header: the zeroed page and the entry
\* are on the partition, the bitmap is not
C23_witness ==
  /\ fs_ret.op = "zealfs_create"
  /\ fs_ret.err = "EIO"
  /\ fs_ret.fail = 3
  /\ fd # NULL
  /\ EntryAt(m_part_ctx, fd.entry_addr) = fd.entry
  /\ fd.entry.start_page \notin m_part_ctx.header.pages_bitmap

\* ---------------------------------------------------------------- C24
Mutating ==
  {"zealfs_create", "zealfs_mkdir", "zealfs_write", "zealfs_flush", "zealfs_unlink",
   "zealfs_rmdir"}

\* a session that mounts the partition now reads the cached header and FAT
SameAsCache ==
  /\ OnDisk.header = zealfs_ctx.header
  /\ \A k \in 0..(zealfs_ctx.header.bitmap_size * 8 - 1) :
       get_next_from_fat(OnDisk, k) = get_next_from_fat(zealfs_ctx, k)

\* C24: write-through: whenever create, mkdir, write, flush, unlink or rmdir
\* has returned without error, the header (bitmap and free_pages) and the FAT
\* on the partition equal the cached ones, and after a successful flush the
\* entry on the partition equals the entry of the handle.
C24_write_through ==
  fs_ret.op \in Mutating /\ fs_ret.err = "none" =>
    /\ SameAsCache
    /\ fs_ret.op = "zealfs_flush" => EntryAt(m_part_ctx, fd.entry_addr) = fd.entry

\* ---------------------------------------------------------------- formatting
\* A partition of each size of s_valid_sizes is formatted, opened by the
\* viewer and asked for its free space, before and after a first import.
\* The sizes reach 4 GiB: they are counted in units of 256 bytes here, which
\* every size of the table and every page size is a multiple of.
MaxFormatIndex == 17

UnitBytes == 256

\* s_valid_sizes[index] in units
valid_size_units(index) == ((32 * KB) \div UnitBytes) * (2 ^ index)

\* zealfsv2_page_size for a size in units; the page size is in bytes
page_size_of_units(units) ==
  IF units <= (64 * KB) \div UnitBytes THEN 256
  ELSE IF units <= (256 * KB) \div UnitBytes THEN 512
  ELSE IF units <= (1 * MB) \div UnitBytes THEN 1 * KB
  ELSE IF units <= (4 * MB) \div UnitBytes THEN 2 * KB
  ELSE IF units <= (16 * MB) \div UnitBytes THEN 4 * KB
  ELSE IF units <= (64 * MB) \div UnitBytes THEN 8 * KB
  ELSE IF units <= (256 * MB) \div UnitBytes THEN 16 * KB
  ELSE IF units <= (1 * GB) \div UnitBytes THEN 32 * KB
  ELSE 64 * KB

\* zealfsv2_format for a size in units: size / page_size_bytes is
\* units / (page_size_bytes / 256); the two 16-bit fields truncate
format_units(units) ==
  LET page_size_bytes == page_size_of_units(units)
      pages == units \div (page_size_bytes \div UnitBytes)
      fat_pages_count == 1 + (IF page_size_bytes = 256 THEN 0 ELSE 1)
  IN [k |-> "zfs",
      magic |-> 90,
      version |-> 2,
      page_size |-> Log2(page_size_bytes \div 256),
      bitmap_size |-> (pages \div 8) % 65536,
      free_pages |-> (pages - 1 - fat_pages_count) % 65536,
      bitmap0 |-> 3 + (IF fat_pages_count > 1 THEN 4 ELSE 0)]

\* the partition disk_format_partition leaves: a zeroed buffer with the header
FormattedUnits(units) ==
  [header |-> HeaderOf(format_units(units)),
   entries |-> NoEntries, fat |-> NoWords, pages |-> NoPages]

\* a partition whose first bytes are zero
BlankPartition ==
  [header |-> ZeroHeader, entries |-> NoEntries, fat |-> NoWords, pages |-> NoPages]

\* INT_MAX + 1 in units
IntLimitUnits == ((2 ^ 30) \div UnitBytes) * 2

\* zealfs_free_space in units. header->free_pages * get_page_size(header)
\* multiplies two int (uint16_t is promoted): beyond INT_MAX the result is
\* undefined, and 0 and the largest count of units stand for the values a
\* build may return besides the wrapped one
free_space_units(ctx, p) ==
  LET c == check_header(ctx, p)
      product == c.header.free_pages * (get_page_size(c.header) \div UnitBytes)
  IN IF product < IntLimitUnits THEN {product}
     ELSE {product % (2 * IntLimitUnits), 0, 2 * IntLimitUnits - 1}

FormatPhase(phase, index) == [phase |-> phase, len |-> index, free0 |-> 0, bitmap0 |-> {}]

InitFormat ==
  \E index \in 0..MaxFormatIndex :
    /\ m_part_ctx = BlankPartition
    /\ zealfs_ctx = StaticCtx
    /\ fd = NULL
    /\ fs_ret = NoCall
    /\ fs_case = FormatPhase("blank", index)
    /\ EditorIdle

EditorUnchanged == UNCHANGED <<disks, disk_count, selected_disk, dev, ret, aborted, steps>>

do_format ==
  /\ fs_case.phase = "blank"
  /\ m_part_ctx' = FormattedUnits(valid_size_units(fs_case.len))
  /\ fs_case' = FormatPhase("formatted", fs_case.len)
  /\ UNCHANGED <<zealfs_ctx, fd, fs_ret>>
  /\ EditorUnchanged

\* fs_ret.n is the result in units
do_free_space ==
  /\ fs_case.phase \in {"formatted", "imported"}
  /\ \E n \in free_space_units(zealfs_ctx, m_part_ctx) :
       fs_ret' = [NoCall EXCEPT !.op = "zealfs_free_space", !.n = n]
  /\ zealfs_ctx' = check_header(zealfs_ctx, m_part_ctx)
  /\ fs_case' = FormatPhase(IF fs_case.phase = "formatted" THEN "measured" ELSE "closed",
                            fs_case.len)
  /\ UNCHANGED <<m_part_ctx, fd>>
  /\ EditorUnchanged

do_import ==
  /\ fs_case.phase = "measured"
  /\ \E isdir \in {0, 1} :
       \E r \in {zealfs_create_both(zealfs_ctx, m_part_ctx, isdir, <<NewFile>>, fd, 0)} :
          /\ zealfs_ctx' = r.ctx
          /\ m_part_ctx' = r.p
          /\ fd' = r.fd
          /\ fs_ret' = Returned("zealfs_create", r, <<>>, <<NewFile>>, isdir, 0)
  /\ fs_case' = FormatPhase("imported", fs_case.len)
  /\ EditorUnchanged

NextFormat ==
  \/ do_format
  \/ do_free_space
  \/ do_import

SpecFormat == InitFormat /\ [][NextFormat]_vars

\* ---------------------------------------------------------------- C25
\* the size formatted in units, its page size from the table in units, the
\* pages it has and those of its FAT
FormattedSize == valid_size_units(fs_case.len)
TablePageSize == page_size_of_units(FormattedSize) \div UnitBytes
TotalPages == FormattedSize \div TablePageSize
FatPages == IF TablePageSize = 1 THEN 1 ELSE 2

\* the header of the claim
HeaderAsSpecified ==
  /\ m_part_ctx.header.magic = 90
  /\ m_part_ctx.header.version = 2
  /\ 2 ^ m_part_ctx.header.page_size = TablePageSize
  /\ m_part_ctx.header.bitmap_size = TotalPages \div 8
  /\ m_part_ctx.header.free_pages = TotalPages - 1 - FatPages
  /\ m_part_ctx.header.pages_bitmap = 0..FatPages

DeletedSlot(d, d2, s) ==
  /\ d2.staged_partitions = [d.staged_partitions EXCEPT ![s] = ZeroPart]
  /\ d2.has_staged_changes
  /\ d2.free_part_idx = IF d.free_part_idx = -1 THEN s ELSE d.free_part_idx
  /\ UnitSig(d2.staged_mbr.hi) = UnitSig(d.staged_mbr.hi)
  /\ d2.staged_mbr.lo = d.staged_mbr.lo
  /\ \A i \in 0..(MAX_PART_COUNT - 1) :
       UnitEntries(d2.staged_mbr.hi)[i + 1]
         = IF i = s THEN ZeroEntry ELSE UnitEntries(d.staged_mbr.hi)[i + 1]
  /\ d2.mbr = d.mbr /\ d2.partitions = d.partitions

\* C26: disk_delete_partition on an active staged slot s frees its buffer,
\* zeroes the slot, leaves the 16 bytes of the staged MBR at 0x1BE + 16*s all
\* zero, sets has_staged_changes and sets free_part_idx to s if it was none;
\* on an inactive slot or an invalid disk it changes nothing.
C26_delete_partition ==
  [][ret'.op = "disk_delete_partition" /\ HasCurrent =>
       \/ /\ disks'[selected_disk] = CurrentDisk
          /\ \/ disk_is_invalid(CurrentDisk)
             \/ \E s \in 0..(MAX_PART_COUNT - 1) : ~CurrentDisk.staged_partitions[s].active
       \/ /\ ~disk_is_invalid(CurrentDisk)
          /\ \E s \in 0..(MAX_PART_COUNT - 1) :
               /\ CurrentDisk.staged_partitions[s].active
               /\ DeletedSlot(CurrentDisk, disks'[selected_disk], s)]_vars

\* ---------------------------------------------------------------- the block layer
\* disk_read and disk_write of disk_mac.c on an image file or on a raw
\* device /dev/rdiskN, which transfers whole sectors at sector boundaries
\* only (read and write fail with EINVAL otherwise). A device is its bytes
\* and the list of the transfers asked of it.
BlockSectors == 3

BlockSize == BlockSectors * DISK_SECTOR_SIZE

\* the byte number i of the device before the call and number j of the buffer
OldByte(i) == i % 251
NewByte(j) == 251 + (j % 5)

BlockDevice(is_file) ==
  [is_file |-> is_file, size |-> BlockSize, bytes |-> [i \in 0..(BlockSize - 1) |-> OldByte(i)],
   log |-> <<>>]

\* a raw device refuses the transfer of n bytes at pos
Refused(d, pos, n) == ~d.is_file /\ (pos % DISK_SECTOR_SIZE # 0 \/ n % DISK_SECTOR_SIZE # 0)

\* read(fd, buf, n) at the position pos: the count read (-1: error), the
\* bytes and the device with the transfer logged
HostRead(d, pos, n) ==
  LET count == IF pos >= d.size THEN 0 ELSE IF pos + n > d.size THEN d.size - pos ELSE n
      logged == [d EXCEPT !.log = Append(@, [at |-> pos, n |-> n])]
  IN IF Refused(d, pos, n) THEN [count |-> -1, data |-> <<>>, d |-> logged]
     ELSE [count |-> count, data |-> [j \in 1..count |-> d.bytes[pos + j - 1]], d |-> logged]

\* write(fd, buf, n) at the position pos with the n bytes data, inside the device
HostWrite(d, pos, data) ==
  LET n == Len(data)
      logged == [d EXCEPT !.log = Append(@, [at |-> pos, n |-> n])]
  IN IF Refused(d, pos, n) \/ pos + n > d.size THEN [count |-> -1, d |-> logged]
     ELSE [count |-> n,
           d |-> [logged EXCEPT !.bytes = [i \in DOMAIN @ |->
                    IF i >= pos /\ i < pos + n THEN data[i - pos + 1] ELSE @[i]]]]

\* the loop of disk_read: r holds the device, the position, the bytes still
\* asked for and those copied to the buffer
RECURSIVE ReadChunks(_)
ReadChunks(r) ==
  IF r.len = 0 \/ r.err THEN r
  ELSE LET chunk_size == IF r.len >= DISK_SECTOR_SIZE THEN DISK_SECTOR_SIZE ELSE r.len
           rd == HostRead(r.d, r.pos, DISK_SECTOR_SIZE)
       IN IF rd.count < 0 THEN [r EXCEPT !.err = TRUE, !.d = rd.d]
          ELSE ReadChunks([d |-> rd.d, pos |-> r.pos + rd.count, len |-> r.len - chunk_size,
                           err |-> FALSE,
                           out |-> r.out \o [j \in 1..chunk_size |->
                                               IF j <= rd.count THEN rd.data[j] ELSE -1]])

\* lseek to disk_offset succeeds on both kinds of device
disk_read(d, disk_offset, len) ==
  ReadChunks([d |-> d, pos |-> disk_offset, len |-> len, err |-> FALSE, out |-> <<>>])

\* the loop of disk_write over the whole sectors of the buffer
RECURSIVE WriteSectors(_, _, _, _)
WriteSectors(d, pos, buffer, i) ==
  IF i * DISK_SECTOR_SIZE + DISK_SECTOR_SIZE > Len(buffer) THEN [err |-> FALSE, d |-> d, pos |-> pos]
  ELSE LET wr == HostWrite(d, pos, SubSeq(buffer, i * DISK_SECTOR_SIZE + 1,
                                          (i + 1) * DISK_SECTOR_SIZE))
       IN IF wr.count < 0 THEN [err |-> TRUE, d |-> wr.d, pos |-> pos]
          ELSE WriteSectors(wr.d, pos + wr.count, buffer, i + 1)

\* the end of disk_write: the sector at aligned_offset is read, its first
\* remainder bytes are replaced and it is written back; after a short read
\* lseek(fd, -512, SEEK_CUR) does not arrive at aligned_offset
WriteRemainder(d, aligned_offset, tail) ==
  LET rd == HostRead(d, aligned_offset, DISK_SECTOR_SIZE)
      temp_buffer == [j \in 1..DISK_SECTOR_SIZE |->
                        IF j <= Len(tail) THEN tail[j] ELSE rd.data[j]]
  IN IF rd.count < 0 THEN [err |-> TRUE, d |-> rd.d]
     ELSE IF aligned_offset + rd.count - DISK_SECTOR_SIZE # aligned_offset
       THEN [err |-> TRUE, d |-> rd.d]
     ELSE CHOOSE r \in {[err |-> wr.count < 0, d |-> wr.d] :
                          wr \in {HostWrite(rd.d, aligned_offset, temp_buffer)}} : TRUE

disk_write(d, buffer, disk_offset, len) ==
  LET aligned_len == len - (len % DISK_SECTOR_SIZE)
      remainder == len % DISK_SECTOR_SIZE
      whole == WriteSectors(d, disk_offset, SubSeq(buffer, 1, aligned_len), 0)
  IN IF whole.err THEN [err |-> TRUE, d |-> whole.d]
     ELSE IF remainder > 0
       THEN WriteRemainder(whole.d, disk_offset + aligned_len,
                           SubSeq(buffer, aligned_len + 1, len))
     ELSE [err |-> FALSE, d |-> whole.d]

\* the offsets and lengths asked: those of ZealFS entries, headers and pages
\* among them
BlockOffsets == {0, 224, 512, 736, 1024, 1280}
BlockLens == {1, 32, 256, 512, 544, 1024, 1536}

BlockCase(phase, offset, len) ==
  [phase |-> phase, len |-> len, free0 |-> offset, bitmap0 |-> {}]

InitBlock ==
  \E is_file \in BOOLEAN, offset \in BlockOffsets, len \in BlockLens :
    /\ offset + len <= BlockSize
    /\ dev = BlockDevice(is_file)
    /\ fs_case = BlockCase("idle", offset, len)
    /\ fs_ret = NoCall
    /\ m_part_ctx = BlankPartition
    /\ zealfs_ctx = StaticCtx
    /\ fd = NULL
    /\ disks = ZeroDisks /\ disk_count = 0 /\ selected_disk = 0
    /\ ret = [op |-> "none", err |-> FALSE] /\ aborted = FALSE /\ steps = 0

BlockFrame ==
  UNCHANGED <<disks, disk_count, selected_disk, ret, aborted, steps, m_part_ctx,
              zealfs_ctx, fd>>

call_disk_write ==
  /\ fs_case.phase = "idle"
  /\ \E r \in {disk_write(dev, [j \in 1..fs_case.len |-> NewByte(j - 1)], fs_case.free0,
                           fs_case.len)} :
       /\ dev' = r.d
       /\ fs_ret' = [NoCall EXCEPT !.op = "disk_write",
                                   !.err = IF r.err THEN "ERROR" ELSE "none"]
  /\ fs_case' = [fs_case EXCEPT !.phase = "written"]
  /\ BlockFrame

call_disk_read ==
  /\ fs_case.phase = "idle"
  /\ \E r \in {disk_read(dev, fs_case.free0, fs_case.len)} :
       /\ dev' = r.d
       /\ fs_ret' = [NoCall EXCEPT !.op = "disk_read",
                                   !.err = IF r.err THEN "ERROR" ELSE "none",
                                   !.n = IF r.err THEN -1 ELSE fs_case.len,
                                   !.out = IF r.err THEN <<>> ELSE r.out]
  /\ fs_case' = [fs_case EXCEPT !.phase = "read"]
  /\ BlockFrame

NextBlock ==
  \/ call_disk_write
  \/ call_disk_read

SpecBlock == InitBlock /\ [][NextBlock]_vars

\* ---------------------------------------------------------------- C27
\* C27: disk_write(handle, offset, buf, len), for any byte offset and any
\* len inside the device, changes exactly the bytes [offset, offset + len)
\* to buf and no other byte, disk_read returns exactly these bytes, and on
\* a raw device every transfer starts at a sector boundary and is a whole
\* number of sectors.
C27_block_layer ==
  /\ fs_case.phase = "written" =>
       /\ fs_ret.err = "none"
       /\ \A i \in 0..(BlockSize - 1) :
            dev.bytes[i] = IF i >= fs_case.free0 /\ i < fs_case.free0 + fs_case.len
                           THEN NewByte(i - fs_case.free0) ELSE OldByte(i)
  /\ fs_case.phase = "read" =>
       /\ fs_ret.err = "none"
       /\ fs_ret.out = [j \in 1..fs_case.len |-> OldByte(fs_case.free0 + j - 1)]
  /\ fs_case.phase \in {"written", "read"} /\ ~dev.is_file =>
       \A k \in DOMAIN dev.log :
         dev.log[k].at % DISK_SECTOR_SIZE = 0 /\ dev.log[k].n % DISK_SECTOR_SIZE = 0


\* ---------------------------------------------------------------- C28
\* the cache the call started from: the header and the FAT it held or, for
\* the first call of a session, those it read from the partition
CacheBefore == check_header(zealfs_ctx, m_part_ctx)

\* the cached header and every cached FAT link are those the call started from
CacheKept ==
  /\ zealfs_ctx'.header = CacheBefore.header
  /\ \A k \in 0..(CacheBefore.header.bitmap_size * 8 - 1) :
       get_next_from_fat(zealfs_ctx', k) = get_next_from_fat(CacheBefore, k)

\* C28: when create or mkdir returns ENOSPC, ENAMETOOLONG or the error of a
\* failed device write, the cached header (bitmap bits and free_pages) and
\* the cached FAT equal their values before the call.
C28_failed_create_keeps_cache ==
  [][(CreateStep /\ fs_ret'.err \in {"ENOSPC", "ENAMETOOLONG", "EIO"}) => CacheKept]_vars

\* ---------------------------------------------------------------- C29
\* the capacity pre-check of zealfs_write for the write of this step, which
\* is made at offset 0: a whole page remains in the current page
PreCheckPasses ==
  zealfs_free_space(zealfs_ctx, m_part_ctx) + get_page_size(zealfs_ctx.header)
    >= fs_ret'.arg

\* the step wrote nothing and changed neither the handle's size nor the cache
NothingWritten ==
  /\ m_part_ctx' = m_part_ctx
  /\ fd'.entry.size = fd.entry.size
  /\ CacheKept

\* C29: zealfs_write is all-or-nothing with respect to space: whenever the
\* pre-check free_space() + (page_size - offset_in_page) >= size passes, the
\* write stores all size bytes and returns size; whenever it returns ENOSPC
\* or ESPIPE, no data was written and the handle's size, the cached bitmap,
\* free_pages and FAT are unchanged.
C29_write_all_or_nothing ==
  [][CallOf("zealfs_write") =>
       /\ PreCheckPasses => (fs_ret'.err = "none" /\ fs_ret'.n = fs_ret'.arg)
       /\ fs_ret'.err \in {"ENOSPC", "ESPIPE"} => NothingWritten]_vars

\* ---------------------------------------------------------------- C30
\* the path of this step's call has an intermediate component, and the path
\* up to it does not name a directory: it is missing or names a file
BadParent ==
  /\ Len(fs_ret'.path) > 1
  /\ ~IsDirectory(CacheBefore, m_part_ctx, ParentOf(fs_ret'.path))

PathCalls == {"zealfs_open", "zealfs_create", "zealfs_mkdir"}

\* C30: path resolution reports not-found whenever an intermediate component
\* of the path does not exist or names a file rather than a directory; open,
\* create and mkdir on such a path fail, and create and mkdir add no entry to
\* any directory and neither allocate nor link any page.
C30_bad_parent_not_found ==
  [][(steps' = steps + 1 /\ fs_ret'.op \in PathCalls /\ BadParent) =>
       /\ Resolve(CacheBefore, m_part_ctx, fs_ret'.path).res = 0
       /\ fs_ret'.err # "none"
       /\ CreateStep => (m_part_ctx' = m_part_ctx /\ CacheKept)]_vars

\* ---------------------------------------------------------------- C31
\* the bytes of the FAT that mount reads and flush writes
PersistedFatSize == check_header(StaticCtx, m_part_ctx).fat_size

\* C31: for every partition size the editor offers, the persisted FAT covers
\* all pages of the partition: 2 * total_pages <= fat_size (one page when the
\* page size is 256 bytes, two pages otherwise).
C31_fat_covers_all_pages ==
  fs_case.phase # "blank" => 2 * TotalPages <= PersistedFatSize

\* ---------------------------------------------------------------- mounting
\* The sessions of the viewer with reads of the device that may fail: each
\* operation starts with check_header, whose ctx->read calls are logged in
\* fs_ret.out, and partition_viewer_parse destroys the session.
MaxMountCalls == 3

\* sizeof(ctx->header)
HeaderCacheSize == 8192 + EntrySize

\* the reads of the device that fail: 0 none, 1 the first of check_header
\* (the header), 2 the second (the FAT)
ReadFailures == {0, 1, 2}

\* check_header with its reads: rfail names the ctx->read that fails. The
\* outcomes are err, the context and the reads made. A read that fails has
\* filled none of its buffer or a part of it (disk_read fails chunk by
\* chunk): both outcomes are kept.
check_header_reads(ctx, p, rfail) ==
  LET header == p.header
      page_size == get_page_size(header)
      fat_size == IF page_size = 256 THEN page_size ELSE 2 * page_size
      read_header == [addr |-> 0, len |-> HeaderCacheSize]
      read_fat == [addr |-> page_size, len |-> fat_size]
      with_header == [ctx EXCEPT !.header = header]
      sized == [with_header EXCEPT !.header_size = get_fs_header_size(header),
                                   !.fat_size = fat_size]
      with_fat == [sized EXCEPT !.fat = LoadWords(ctx.fat, p.fat, fat_size \div 2)]
  IN IF ctx.header.magic # 0
       THEN {[err |-> 0, ctx |-> ctx, reads |-> <<>>]}
     ELSE IF rfail = 1
       THEN {[err |-> -1, ctx |-> c, reads |-> <<read_header>>] : c \in {ctx, with_header}}
     ELSE IF rfail = 2
       THEN {[err |-> -1, ctx |-> c, reads |-> <<read_header, read_fat>>] :
               c \in {sized, with_fat}}
     ELSE {[err |-> 0, ctx |-> with_fat, reads |-> <<read_header, read_fat>>]}

InitMount == InitDir

\* a read may fail only where one is made
MayFail(rfail) == rfail # 0 => zealfs_ctx.header.magic = 0

MountFrame ==
  /\ steps' = steps + 1
  /\ UNCHANGED <<m_part_ctx, fs_case, disks, disk_count, selected_disk, dev, ret, aborted>>

\* extract_selected_file: zealfs_open returns -1 when check_header fails
mount_open ==
  /\ steps < MaxMountCalls
  /\ \E path \in {<<ExistingName(1)>>, <<NewFile>>}, rfail \in ReadFailures :
       /\ MayFail(rfail)
       /\ \E m \in check_header_reads(zealfs_ctx, m_part_ctx, rfail) :
            \E r \in {IF m.err # 0 THEN Err("ERROR") @@ [ctx |-> m.ctx, fd |-> NULL]
                      ELSE zealfs_open(path, m.ctx, m_part_ctx, NULL)} :
               /\ zealfs_ctx' = r.ctx
               /\ fd' = r.fd
               /\ fs_ret' = Returned("zealfs_open", r, m.reads, path, 0, rfail)
  /\ MountFrame

\* zealfs_free_space asserts that check_header returned 0
mount_free_space ==
  /\ steps < MaxMountCalls
  /\ \E rfail \in ReadFailures :
       /\ MayFail(rfail)
       /\ \E m \in check_header_reads(zealfs_ctx, m_part_ctx, rfail) :
            \E r \in {IF m.err # 0 THEN Err("assert")
                      ELSE Ok(zealfs_free_space(m.ctx, m_part_ctx))} :
               /\ zealfs_ctx' = m.ctx
               /\ fs_ret' = Returned("zealfs_free_space", r, m.reads, <<>>, 0, rfail)
  /\ UNCHANGED fd
  /\ MountFrame

\* partition_viewer_parse
mount_destroy ==
  /\ steps < MaxMountCalls
  /\ zealfs_ctx' = zealfs_destroy(zealfs_ctx)
  /\ fd' = NULL
  /\ fs_ret' = [NoCall EXCEPT !.op = "zealfs_destroy"]
  /\ MountFrame

NextMount ==
  \/ mount_open
  \/ mount_free_space
  \/ mount_destroy

SpecMount == InitMount /\ [][NextMount]_vars

\* ---------------------------------------------------------------- C32
\* this step is an operation of the engine on the session
MountStep == steps' = steps + 1 /\ fs_ret'.op \in {"zealfs_open", "zealfs_free_space"}

Unmounted == zealfs_ctx.header.magic = 0

\* the reads of a mount: the header at offset 0, then fat_size bytes at the
\* offset of one page; a failed header read is the last read
MountReads ==
  /\ Len(fs_ret'.out) >= 1
  /\ fs_ret'.out[1] = [addr |-> 0, len |-> HeaderCacheSize]
  /\ fs_ret'.fail # 1 =>
       /\ Len(fs_ret'.out) = 2
       /\ fs_ret'.out[2] = [addr |-> get_page_size(m_part_ctx.header),
                            len |-> PersistedFatSize]

\* C32: the first operation on a new session, or the first after
\* zealfs_destroy, reads the header at offset 0 and then fat_size bytes of
\* FAT at offset page_size; later operations do not read them again; and the
\* session is mounted (header magic non-zero) only if both reads succeeded:
\* after a failed mount the next operation mounts again.
C32_mount_state_machine ==
  [][MountStep =>
       /\ Unmounted => MountReads
       /\ ~Unmounted => fs_ret'.out = <<>>
       /\ (Unmounted /\ fs_ret'.fail # 0) => zealfs_ctx'.header.magic = 0]_vars

\* ---------------------------------------------------------------- C33
\* the staged slots of the disk that an allocation may use
UsableSlots(d) ==
  {s \in 0..(MAX_PART_COUNT - 1) :
     ~d.staged_partitions[s].active /\ (d.has_mbr \/ s = 0)}

StagedIsCommitted(d) ==
  /\ d.staged_mbr = d.mbr
  /\ d.staged_partitions = d.partitions

\* C34: for every valid disk, with or without an MBR, right after it is
\* parsed and in every later state in which has_staged_changes is false, the
\* staged MBR equals the committed MBR byte for byte and the staged partition
\* array equals the committed one.
C34_staged_mirrors_committed ==
  \A i \in Registered :
    (disks[i].valid /\ ~disks[i].has_staged_changes) => StagedIsCommitted(disks[i])

\* ---------------------------------------------------------------- C35
\* the table entry number s of the MBR buffer decodes to the slot part
DecodesTo(mbr, s, part) ==
  LET e == ParseEntry(UnitEntries(mbr.hi)[s + 1])
  IN /\ e.active = part.active
     /\ e.type = part.type
     /\ e.start_lba = part.start_lba
     /\ e.size_sectors = part.size_sectors

\* C35: on a disk with an MBR, in every state reachable by allocate, format,
\* delete, revert and commit, the four table entries of the staged MBR decode
\* (type byte, start LBA, size in sectors, by the rules of
\* disk_parse_mbr_partitions) to exactly the staged partition array.
C35_staged_mbr_decodes_to_array ==
  \A i \in Registered :
    (disks[i].valid /\ disks[i].has_mbr) =>
      \A s \in 0..(MAX_PART_COUNT - 1) :
        DecodesTo(disks[i].staged_mbr, s, disks[i].staged_partitions[s])

\* ---------------------------------------------------------------- C36
\* the partition table that enumeration reads from sector 0 of the device of
\* the disk d
Reparsed(d) == disk_parse_mbr_partitions(disk_try_open(d.path, dev[d.path])).partitions

SameTable(a, b) ==
  \A s \in 0..(MAX_PART_COUNT - 1) :
    /\ a[s].active = b[s].active
    /\ a[s].type = b[s].type
    /\ a[s].start_lba = b[s].start_lba
    /\ a[s].size_sectors = b[s].size_sectors

Committed == ret.op = "disk_write_changes" /\ ~ret.err /\ HasCurrent

\* C36: after a successful disk_write_changes, reading sector 0 of the device
\* again and parsing it as enumeration does yields the active flags, types,
\* start LBAs and sizes of the committed partition table in memory, for
\* disks with an MBR and for disks without one.
C36_commit_reparses_to_committed ==
  Committed => SameTable(Reparsed(CurrentDisk), CurrentDisk.partitions)

\* C37: in every state of a running session disk_count is at most MAX_DISKS
\* and, when the registry is not empty, selected_disk is the index of a valid
\* disk of the registry, so that disk_get_current returns one of its disks.
C37_selected_disk_in_range ==
  ~aborted =>
    /\ disk_count <= MAX_DISKS
    /\ disk_count > 0 => HasCurrent /\ CurrentDisk.valid


\* ---------------------------------------------------------------- C38
\* the occupied entries below the directory that starts at the page start,
\* each with its address and the first page of its chain
RECURSIVE Owners(_, _, _, _)
Owners(ctx, p, start, depth) ==
  LET pages == PagesFrom(ctx, start)
      slots == UNION {{SlotsOf(ctx.header, q)[i] : i \in DOMAIN SlotsOf(ctx.header, q)} :
                      q \in pages}
      occupied == {b \in slots : IsOccupied(EntryAt(p, b))}
  IN {[addr |-> b, start |-> EntryAt(p, b).start_page] : b \in occupied} \cup
     UNION {IF EntryAt(p, b).flags % 2 = IS_DIR /\ depth > 0
            THEN Owners(ctx, p, EntryAt(p, b).start_page, depth - 1)
            ELSE {} : b \in occupied}

\* the root directory and the occupied entries
AllOwners(ctx, p) == {[addr |-> 0, start |-> 0]} \cup Owners(ctx, p, 0, MaxNesting)

\* the pages of all the chains
ChainPages(ctx, p) == UNION {PagesFrom(ctx, o.start) : o \in AllOwners(ctx, p)}

\* no page is in the chains of two owners, and only the root directory has a
\* page of the header or of the FAT in its chain
DisjointChains(ctx, p) ==
  /\ \A o1, o2 \in AllOwners(ctx, p) :
       o1 # o2 => PagesFrom(ctx, o1.start) \cap PagesFrom(ctx, o2.start) = {}
  /\ \A o \in AllOwners(ctx, p) :
       o.addr # 0 => PagesFrom(ctx, o.start) \cap Reserved(ctx) = {}

\* the pages this step has allocated in the cached bitmap
Allocated == zealfs_ctx'.header.pages_bitmap \ zealfs_ctx.header.pages_bitmap

\* C38: after any sequence of create, mkdir, write, unlink and rmdir calls,
\* failed ones included, the chains of the root directory and of the occupied
\* entries are pairwise disjoint, and no call allocates a page of the header,
\* of the FAT, or of the chain of a file or directory.
C38_chains_disjoint ==
  /\ [](Mounted => DisjointChains(zealfs_ctx, m_part_ctx))
  /\ [][(Mounted /\ zealfs_ctx'.header.magic # 0) =>
          Allocated \cap (Reserved(zealfs_ctx) \cup ChainPages(zealfs_ctx, m_part_ctx)) = {}]_vars

\* ---------------------------------------------------------------- C39
\* the bytes the chain of the handle's file can hold
ChainCapacity ==
  Cardinality(PagesFrom(zealfs_ctx, fd.entry.start_page)) * get_page_size(zealfs_ctx.header)

\* the last call was a zealfs_write that returned its size
WriteReturned == fs_ret.op = "zealfs_write" /\ fs_ret.err = "none" /\ fd # NULL

\* C39: after a successful zealfs_write at an offset not beyond the size of
\* the file, appending or overwriting, the size of the handle's entry is at
\* most the number of pages of the file's FAT chain times page_size.
C39_size_within_chain ==
  WriteReturned => fd.entry.size <= ChainCapacity

\* ---------------------------------------------------------------- C40
\* the width of unsigned long, the type of DISK_SECTOR_SIZE (512UL): 32 bits
\* on Windows and on 32-bit builds, 64 bits on the others
LongWidths == {Bits32, Bits64}

\* x * DISK_SECTOR_SIZE for a uint32_t x: the product is computed in unsigned
\* long, (x * 512) mod 2^bits
MulSector(x, bits) == (x % (2^bits \div DISK_SECTOR_SIZE)) * DISK_SECTOR_SIZE

\* the start LBAs and sector counts of the partitions of a valid disk
SectorValues ==
  {1, 2048, U32 \div DISK_SECTOR_SIZE - 1, U32 \div DISK_SECTOR_SIZE,
   U32 \div DISK_SECTOR_SIZE + 2048, MAX_DISK_SIZE \div DISK_SECTOR_SIZE - 1}

\* a build of the tool and a partition of the selected disk
InitWidth ==
  \E bits \in LongWidths, lba \in SectorValues, sectors \in SectorValues :
    /\ fs_case = [phase |-> "idle", long_bits |-> bits, start_lba |-> lba,
                  size_sectors |-> sectors, operand |-> 0]
    /\ fs_ret = NoCall
    /\ m_part_ctx = BlankPartition
    /\ zealfs_ctx = StaticCtx
    /\ fd = NULL
    /\ dev = [p \in Paths |-> AbsentFile]
    /\ disks = ZeroDisks /\ disk_count = 0 /\ selected_disk = 0
    /\ ret = [op |-> "none", err |-> FALSE] /\ aborted = FALSE /\ steps = 0

WidthFrame ==
  UNCHANGED <<disks, disk_count, selected_disk, dev, ret, aborted, steps, m_part_ctx,
              zealfs_ctx, fd>>

\* the function op has computed the byte value n from the operand x
Computed(op, x, n) ==
  /\ fs_case.phase = "idle"
  /\ fs_ret' = [NoCall EXCEPT !.op = op, !.n = n]
  /\ fs_case' = [fs_case EXCEPT !.phase = "computed", !.operand = x]
  /\ WidthFrame

\* part_size_bytes of disk_allocate_partition
width_allocate_partition ==
  Computed("disk_allocate_partition", fs_case.size_sectors,
           MulSector(fs_case.size_sectors, fs_case.long_bits))

\* part_size_bytes of disk_format_partition
width_format_partition ==
  Computed("disk_format_partition", fs_case.size_sectors,
           MulSector(fs_case.size_sectors, fs_case.long_bits))

\* part_offset of disk_write_changes
width_write_changes ==
  Computed("disk_write_changes", fs_case.start_lba,
           MulSector(fs_case.start_lba, fs_case.long_bits))

NextWidth ==
  \/ width_allocate_partition
  \/ width_format_partition
  \/ width_write_changes

SpecWidth == InitWidth /\ [][NextWidth]_vars

\* C40: for every partition of a valid disk, with a start LBA and a sector
\* count below MAX_DISK_SIZE / 512, the byte values start_lba * 512 and
\* size_sectors * 512 of disk_allocate_partition, disk_format_partition and
\* disk_write_changes are the mathematical products, whatever the width of
\* unsigned long.
C40_sector_products ==
  fs_case.phase = "computed" => fs_ret.n = fs_case.operand * DISK_SECTOR_SIZE

====
